---- MODULE Spec2Model ----
(***************************************************************************)
(* Model of the Blockly MATLAB/Octave code generator (generators/matlab.js *)
(* and generators/matlab/*.js).                                            *)
(*                                                                         *)
(* Text is a sequence of tokens.  The token "\n" is one newline character, *)
(* the token " " is one blank; no other token contains a newline.  A name  *)
(* produced by the name database is one token.                             *)
(***************************************************************************)
EXTENDS Integers, Sequences, FiniteSets, TLC

VARIABLES
  pc,              \* position of the driver: "new", "walk", "aborted",
                   \* "finished"; "emit", "emitted" for a single emitter
  definitions_,    \* Matlab.definitions_: <<[key, def]>> in insertion order
  functionNames_,  \* Matlab.functionNames_: set of [key, name]
  nameDB_,         \* Matlab.nameDB_: [exists, db, dbReverse]
  isInitialized,   \* Matlab.isInitialized
  ws,              \* the workspace handed to the last init
  codelist,        \* code of the top blocks walked so far in this run
  out,             \* text returned by finish (<<>> when none was returned)
  log,             \* history: what this run registered, [key, name]
  prev,            \* history: how the run before this one ended
  blk,             \* the block handed to the last emitter call
  res              \* what that call returned: [code, order, err, stmt];
                   \* after finish, the code and the fragments it was given

vars == <<pc, definitions_, functionNames_, nameDB_, isInitialized, ws,
          codelist, out, log, prev, blk, res>>

(***************************************************************************)
(* Bounds of the model.                                                    *)
(***************************************************************************)
MaxWalk == 3       \* top blocks walked in one run
MaxNum == 2        \* number literals are -MaxNum .. MaxNum

(***************************************************************************)
(* Order of operation ENUMs, times ten (ORDER_MEMBER is 2.1 in the source) *)
(***************************************************************************)
ORDER_ATOMIC == 0
ORDER_COLLECTION == 10
ORDER_MEMBER == 21
ORDER_FUNCTION_CALL == 22
ORDER_EXPONENTIATION == 30
ORDER_UNARY_SIGN == 40
ORDER_BITWISE_NOT == 40
ORDER_MULTIPLICATIVE == 50
ORDER_ADDITIVE == 60
ORDER_RELATIONAL == 110
ORDER_LOGICAL_NOT == 120
ORDER_LOGICAL_AND == 130
ORDER_LOGICAL_OR == 140
ORDER_CONDITIONAL == 150
ORDER_LAMBDA == 160
ORDER_NONE == 990

\* A mutant of ORDER_OVERRIDES: the pair for a logical and in a logical and
\* is left out.
ORDER_OVERRIDES_WithoutAnd ==
  { <<ORDER_FUNCTION_CALL, ORDER_MEMBER>>,
    <<ORDER_FUNCTION_CALL, ORDER_FUNCTION_CALL>>,
    <<ORDER_MEMBER, ORDER_MEMBER>>,
    <<ORDER_MEMBER, ORDER_FUNCTION_CALL>>,
    <<ORDER_LOGICAL_NOT, ORDER_LOGICAL_NOT>>,
    <<ORDER_LOGICAL_OR, ORDER_LOGICAL_OR>> }

ORDER_OVERRIDES ==
  { <<ORDER_FUNCTION_CALL, ORDER_MEMBER>>,
    <<ORDER_FUNCTION_CALL, ORDER_FUNCTION_CALL>>,
    <<ORDER_MEMBER, ORDER_MEMBER>>,
    <<ORDER_MEMBER, ORDER_FUNCTION_CALL>>,
    <<ORDER_LOGICAL_NOT, ORDER_LOGICAL_NOT>>,
    <<ORDER_LOGICAL_AND, ORDER_LOGICAL_AND>>,
    <<ORDER_LOGICAL_OR, ORDER_LOGICAL_OR>> }

\* The reserved words the names of the model can meet (a part of the list).
RESERVED_WORDS_ ==
  { "list", "print", "range", "input", "abs", "min", "max", "sum", "len",
    "math", "random", "Number" }

(***************************************************************************)
(* Text                                                                    *)
(***************************************************************************)
NL == "\n"
INDENT == "  "
FUNCTION_NAME_PLACEHOLDER_ == "{leCUI8hutHZI4480Dc}"

IsWs(t) == t \in {" ", NL, INDENT}

RECURSIVE Join(_, _)
\* Array.prototype.join: the texts of parts, sep between neighbours.
Join(parts, sep) ==
  IF parts = <<>> THEN <<>>
  ELSE IF Len(parts) = 1 THEN parts[1]
  ELSE parts[1] \o sep \o Join(Tail(parts), sep)

\* String.prototype.replace(placeholder, name) on the joined helper text.
ReplacePlaceholder(text, name) ==
  [i \in 1..Len(text) |->
     IF text[i] = FUNCTION_NAME_PLACEHOLDER_ THEN name ELSE text[i]]

NumRange == (0 - MaxNum)..MaxNum

\* stringUtils.isNumber: /^\s*-?\d+(\.\d+)?\s*$/ on a text of the model.
IsNumber(text) ==
  Len(text) = 1 /\ \E n \in NumRange : text[1] = ToString(n)

\* parseInt(text, 10) of a text that IsNumber.
ParseInt(text) == CHOOSE n \in NumRange : text[1] = ToString(n)

\* The tokens of the model that are one word (\w+) without being a name.
WordTokens == {"true", "false", "pi", "e", "Inf", "None", "False"}
                 \cup {ToString(n) : n \in 0..MaxNum}

\* text.match(/^\w+$/): one token that is a word; names are the names the
\* name database has handed out.
IsWord(text, names) ==
  Len(text) = 1 /\ text[1] \in (names \cup WordTokens)

(***************************************************************************)
(* Blockly.Names (the name database)                                       *)
(***************************************************************************)
NoNames == [exists |-> FALSE, db |-> {}, dbReverse |-> {}]

\* A mutant of Names.reset: the names handed out so far stay taken.
NamesResetKeeping(db) == [db EXCEPT !.exists = TRUE]

\* new Names(RESERVED_WORDS_) and Names.reset: both leave an empty database.
NamesReset(db) == [exists |-> TRUE, db |-> {}, dbReverse |-> {}]

Suffixed(name, i) == IF i = 0 THEN name ELSE name \o ToString(i)

\* Names.getDistinctName: name, name2, name3, ... the first one that is
\* neither taken nor reserved.  Returns [db, name].
GetDistinctName(db, name) ==
  LET top == Cardinality(db.dbReverse) + 2
      free == { i \in {0} \cup (2..top) :
                  /\ Suffixed(name, i) \notin db.dbReverse
                  /\ Suffixed(name, i) \notin RESERVED_WORDS_ }
      i == CHOOSE k \in free : \A m \in free : k <= m
  IN [db |-> [db EXCEPT !.dbReverse = @ \cup {Suffixed(name, i)}],
      name |-> Suffixed(name, i)]

\* Names.getName: the name bound to (type, name), bound now if it was not.
GetName(db, name, type) ==
  IF \E e \in db.db : e.type = type /\ e.key = name
  THEN [db |-> db,
        name |-> (CHOOSE e \in db.db : e.type = type /\ e.key = name).name]
  ELSE LET d == GetDistinctName(db, name)
       IN [db |-> [d.db EXCEPT !.db = @ \cup
                     {[type |-> type, key |-> name, name |-> d.name]}],
           name |-> d.name]

RECURSIVE Populate(_, _, _)
\* Names.populateVariables / populateProcedures: getName for each of names.
Populate(db, names, type) ==
  IF names = <<>> THEN db
  ELSE Populate(GetName(db, Head(names), type).db, Tail(names), type)

(***************************************************************************)
(* Blockly.Generator: the state every emitter works on, and the registry   *)
(***************************************************************************)
\* The generator state as one value: G for the current state.  calls is the
\* history of what the run registered, in the order of first occurrence:
\* [key, name] for a provideFunction_ call, [key, ""] for an assignment to
\* definitions_[key].
GState(defs, fnames, names, calls) ==
  [definitions_ |-> defs, functionNames_ |-> fnames, nameDB_ |-> names,
   calls |-> calls]

G == GState(definitions_, functionNames_, nameDB_, log)

WithDB(g, db) == [g EXCEPT !.nameDB_ = db]

HasKey(defs, key) == \E i \in 1..Len(defs) : defs[i].key = key

DefOf(defs, key) ==
  defs[CHOOSE i \in 1..Len(defs) : defs[i].key = key].def

\* definitions_[key] = def: a new key goes last, an old key keeps its place.
SetDef(defs, key, def) ==
  IF HasKey(defs, key)
  THEN [i \in 1..Len(defs) |->
          IF defs[i].key = key THEN [key |-> key, def |-> def] ELSE defs[i]]
  ELSE Append(defs, [key |-> key, def |-> def])

Logged(calls, key, name) ==
  IF \E i \in 1..Len(calls) : calls[i] = [key |-> key, name |-> name]
  THEN calls
  ELSE Append(calls, [key |-> key, name |-> name])

\* definitions_[key] = def on the generator state g.
WithDef(g, key, def) ==
  [g EXCEPT !.definitions_ = SetDef(g.definitions_, key, def),
            !.calls = Logged(g.calls, key, "")]

NameOfKey(fnames, key) == (CHOOSE e \in fnames : e.key = key).name

\* A mutant of provideFunction_: it registers the helper again on each call.
provideFunction_Again(g, desiredName, code) ==
  LET d == GetDistinctName(g.nameDB_, desiredName)
  IN [g |-> GState(Append(g.definitions_,
                     [key |-> desiredName,
                      def |-> ReplacePlaceholder(code, d.name)]),
                   {e \in g.functionNames_ : e.key # desiredName}
                      \cup {[key |-> desiredName, name |-> d.name]},
                   d.db,
                   Logged(g.calls, desiredName, d.name)),
      name |-> d.name]

\* Generator.provideFunction_(desiredName, code): [g, name].
provideFunction_(g, desiredName, code) ==
  IF ~(HasKey(g.definitions_, desiredName)
       /\ DefOf(g.definitions_, desiredName) # <<>>)
  THEN LET d == GetDistinctName(g.nameDB_, desiredName)
       IN [g |-> GState(SetDef(g.definitions_, desiredName,
                               ReplacePlaceholder(code, d.name)),
                        {e \in g.functionNames_ : e.key # desiredName}
                           \cup {[key |-> desiredName, name |-> d.name]},
                        d.db,
                        Logged(g.calls, desiredName, d.name)),
           name |-> d.name]
  ELSE LET name == NameOfKey(g.functionNames_, desiredName)
       IN [g |-> [g EXCEPT !.calls = Logged(g.calls, desiredName, name)],
           name |-> name]

\* An emitter's result: the state it leaves, its text and order, the error
\* it threw ("" when none), and whether the text is a statement.
Result(g, code, order, err, stmt) ==
  [g |-> g, code |-> code, order |-> order, err |-> err, stmt |-> stmt]

Expr(g, code, order) == Result(g, code, order, "", FALSE)
Stmt(g, code) == Result(g, code, ORDER_NONE, "", TRUE)
Throw(g, err) == Result(g, <<>>, ORDER_NONE, err, FALSE)

\* A value slot: unfilled, or the [code, order] its block was rendered to.
Unfilled == [filled |-> FALSE, code |-> <<>>, order |-> ORDER_ATOMIC]
Child(code, order) == [filled |-> TRUE, code |-> code, order |-> order]

\* Generator.valueToCode: "" for an unfilled slot, else the child's text, in
\* parentheses when the outer order binds at least as tightly as the inner
\* one and the pair is not in ORDER_OVERRIDES.
valueToCode(slot, outerOrder) ==
  IF ~slot.filled THEN <<>>
  ELSE IF /\ outerOrder <= slot.order
          /\ slot.order # ORDER_ATOMIC
          /\ <<outerOrder, slot.order>> \notin ORDER_OVERRIDES
       THEN <<"(">> \o slot.code \o <<")">>
       ELSE slot.code

\* a || b on texts: b when a is the empty string.
Or(a, b) == IF a = <<>> THEN b ELSE a

(***************************************************************************)
(* Matlab.init and Matlab.finish                                           *)
(***************************************************************************)
\* A workspace: its variables (all used), its procedures, its index mode.
Workspace(vs, ps, one) == [vars |-> vs, procs |-> ps, oneBasedIndex |-> one]

RECURSIVE Defvars(_, _)
\* The lines name + ' = None' of init, for the variables vs.
Defvars(db, vs) ==
  IF vs = <<>> THEN <<>>
  ELSE <<(<<GetName(db, Head(vs), "VARIABLE").name, " = None">>)>>
         \o Defvars(db, Tail(vs))

\* Generator.init: fresh definitions_ and functionNames_.
GeneratorInit(g) == GState(<<>>, {}, g.nameDB_, g.calls)

\* Generator.finish: definitions_ and functionNames_ are deleted.
GeneratorFinish(g) == GState(<<>>, {}, g.nameDB_, g.calls)

\* A mutant of Matlab.init: the call of Generator.init is left out.
InitStateNoBase(g, w) ==
  LET db0 == NamesReset(g.nameDB_)
      db1 == Populate(db0, w.vars, "VARIABLE")
      db2 == Populate(db1, w.procs, "PROCEDURE")
  IN WithDef(WithDB(g, db2), "variables", Join(Defvars(db2, w.vars), <<NL>>))

\* A mutant of Matlab.init: the name database is not reset.
InitStateKeepNames(g, w) ==
  LET g1 == GeneratorInit(g)
      db0 == [g1.nameDB_ EXCEPT !.exists = TRUE]
      db1 == Populate(db0, w.vars, "VARIABLE")
      db2 == Populate(db1, w.procs, "PROCEDURE")
  IN WithDef(WithDB(g1, db2), "variables",
             Join(Defvars(db2, w.vars), <<NL>>))

\* The state Matlab.init(workspace) leaves, from the state g.
InitState(g, w) ==
  LET g1 == GeneratorInit(g)
      db0 == NamesReset(g1.nameDB_)
      db1 == Populate(db0, w.vars, "VARIABLE")
      db2 == Populate(db1, w.procs, "PROCEDURE")
  IN WithDef(WithDB(g1, db2), "variables",
             Join(Defvars(db2, w.vars), <<NL>>))

\* def.match(/^(from\s+\S+\s+)?import\s+\S+/)
SkipWs(t, i) ==
  CHOOSE j \in i..(Len(t) + 1) :
    /\ \A k \in i..(j - 1) : IsWs(t[k])
    /\ (j <= Len(t) => ~IsWs(t[j]))

SkipNonWs(t, i) ==
  CHOOSE j \in i..(Len(t) + 1) :
    /\ \A k \in i..(j - 1) : ~IsWs(t[k])
    /\ (j <= Len(t) => IsWs(t[j]))

ImportAt(t, i) ==
  /\ i + 1 <= Len(t)
  /\ t[i] = "import"
  /\ IsWs(t[i + 1])
  /\ SkipWs(t, i + 1) <= Len(t)

IsImport(t) ==
  \/ ImportAt(t, 1)
  \/ /\ 2 <= Len(t)
     /\ t[1] = "from"
     /\ IsWs(t[2])
     /\ LET j == SkipWs(t, 2)
            k == SkipNonWs(t, j)
        IN /\ j <= Len(t)
           /\ k <= Len(t)
           /\ ImportAt(t, SkipWs(t, k))

\* The mark of a newline that a replacement removes.
Removed == "<removed>"

IsKept(token) == token # Removed

\* A mutant of the first replacement: a run of newlines keeps three of them.
CollapseNewlinesToThree(t) ==
  SelectSeq([i \in 1..Len(t) |->
               IF /\ i >= 4
                  /\ t[i] = NL /\ t[i - 1] = NL /\ t[i - 2] = NL /\ t[i - 3] = NL
               THEN Removed ELSE t[i]],
            IsKept)

\* text.replace(/\n\n+/g, '\n\n'): of every run of newlines, the newlines
\* after the second are removed.
CollapseNewlines(t) ==
  SelectSeq([i \in 1..Len(t) |->
               IF i >= 3 /\ t[i] = NL /\ t[i - 1] = NL /\ t[i - 2] = NL
               THEN Removed ELSE t[i]],
            IsKept)

\* text.replace(/\n*$/, '\n\n\n')
TrailingNewlines(t) ==
  LET j == CHOOSE j \in 0..Len(t) :
             /\ \A k \in (j + 1)..Len(t) : t[k] = NL
             /\ (j >= 1 => t[j] # NL)
  IN SubSeq(t, 1, j) \o <<NL, NL, NL>>

Imports(defs) ==
  LET F[i \in 0..Len(defs)] ==
        IF i = 0 THEN <<>>
        ELSE IF IsImport(defs[i].def) THEN Append(F[i - 1], defs[i].def)
             ELSE F[i - 1]
  IN F[Len(defs)]

\* A mutant of the loop that fills definitions: unshift instead of push.
DefinitionsReversed(defs) ==
  LET F[i \in 0..Len(defs)] ==
        IF i = 0 THEN <<>>
        ELSE IF IsImport(defs[i].def) THEN F[i - 1]
             ELSE <<defs[i].def>> \o F[i - 1]
  IN F[Len(defs)]

Definitions(defs) ==
  LET F[i \in 0..Len(defs)] ==
        IF i = 0 THEN <<>>
        ELSE IF IsImport(defs[i].def) THEN F[i - 1]
             ELSE Append(F[i - 1], defs[i].def)
  IN F[Len(defs)]

\* A mutant of allDefs: the imports come after the other fragments.
AllDefsImportsLast(defs) ==
  Join(Definitions(defs), <<NL, NL>>) \o <<NL, NL>>
    \o Join(Imports(defs), <<NL>>)

\* allDefs of Matlab.finish.
AllDefs(defs) ==
  Join(Imports(defs), <<NL>>) \o <<NL, NL>>
    \o Join(Definitions(defs), <<NL, NL>>)

\* The preamble Matlab.finish builds from definitions_.
Preamble(defs) == TrailingNewlines(CollapseNewlines(AllDefs(defs)))

\* The text Matlab.finish(code) returns.
FinishText(defs, code) == Preamble(defs) \o code

(***************************************************************************)
(* Matlab.getAdjustedInt                                                   *)
(***************************************************************************)
\* [num, n, code]: a number n (code is its digits), or a text.
AdjNum(n) == [num |-> TRUE, n |-> n, code |-> <<ToString(n)>>]
AdjText(code) == [num |-> FALSE, n |-> 0, code |-> code]

\* A mutant of getAdjustedInt: the delta is not decremented in one-based mode.
getAdjustedIntNoShift(w, slot, opt_delta, opt_negate) ==
  LET delta == opt_delta
      defaultAtIndex == IF w.oneBasedIndex THEN <<"1">> ELSE <<"0">>
      atOrder == IF delta # 0 THEN ORDER_ADDITIVE ELSE ORDER_NONE
      at == Or(valueToCode(slot, atOrder), defaultAtIndex)
  IN IF IsNumber(at)
     THEN LET n == ParseInt(at) + delta
          IN AdjNum(IF opt_negate THEN 0 - n ELSE n)
     ELSE LET c == IF delta > 0
                   THEN <<"int(">> \o at \o <<" + ", ToString(delta), ")">>
                   ELSE IF delta < 0
                   THEN <<"int(">> \o at \o <<" - ", ToString(0 - delta), ")">>
                   ELSE <<"int(">> \o at \o <<")">>
          IN AdjText(IF opt_negate THEN <<"-">> \o c ELSE c)

\* A mutant of getAdjustedInt: a negative delta is written without the
\* change of sign, int(at - -1) becoming int(at - 1) for delta = 1.
getAdjustedIntSign(w, slot, opt_delta, opt_negate) ==
  LET delta == IF w.oneBasedIndex THEN opt_delta - 1 ELSE opt_delta
      defaultAtIndex == IF w.oneBasedIndex THEN <<"1">> ELSE <<"0">>
      atOrder == IF delta # 0 THEN ORDER_ADDITIVE ELSE ORDER_NONE
      at == Or(valueToCode(slot, atOrder), defaultAtIndex)
  IN IF IsNumber(at)
     THEN LET n == ParseInt(at) + delta
          IN AdjNum(IF opt_negate THEN 0 - n ELSE n)
     ELSE LET c == IF delta > 0
                   THEN <<"int(">> \o at \o <<" - ", ToString(delta), ")">>
                   ELSE IF delta < 0
                   THEN <<"int(">> \o at \o <<" - ", ToString(0 - delta), ")">>
                   ELSE <<"int(">> \o at \o <<")">>
          IN AdjText(IF opt_negate THEN <<"-">> \o c ELSE c)

getAdjustedInt(w, slot, opt_delta, opt_negate) ==
  LET delta == IF w.oneBasedIndex THEN opt_delta - 1 ELSE opt_delta
      defaultAtIndex == IF w.oneBasedIndex THEN <<"1">> ELSE <<"0">>
      atOrder == IF delta # 0 THEN ORDER_ADDITIVE ELSE ORDER_NONE
      at == Or(valueToCode(slot, atOrder), defaultAtIndex)
  IN IF IsNumber(at)
     THEN LET n == ParseInt(at) + delta
          IN AdjNum(IF opt_negate THEN 0 - n ELSE n)
     ELSE LET c == IF delta > 0
                   THEN <<"int(">> \o at \o <<" + ", ToString(delta), ")">>
                   ELSE IF delta < 0
                   THEN <<"int(">> \o at \o <<" - ", ToString(0 - delta), ")">>
                   ELSE <<"int(">> \o at \o <<")">>
          IN AdjText(IF opt_negate THEN <<"-">> \o c ELSE c)

(***************************************************************************)
(* generators/matlab/lists.js                                              *)
(***************************************************************************)
flattentocelllistCode ==
  << "function out = ", FUNCTION_NAME_PLACEHOLDER_, "(in)", NL,
     "  out = {};", NL,
     NL,
     "  if ~iscell(in)", NL,
     "    in = { in };", NL,
     "  end", NL,
     NL,
     "  for i = 1:numel(in)", NL,
     "    c = in{i};", NL,
     "    if iscell(c)", NL,
     "      for j = 1:numel(c)", NL,
     "        out{end+1} = c{j};", NL,
     "      end", NL,
     "    else", NL,
     "      out{end+1} = c;", NL,
     "    end", NL,
     "  end", NL,
     "end", NL >>

getflattentocelllist(g) ==
  provideFunction_(g, "flattentocelllist", flattentocelllistCode)

lists_create_empty(g, w, b) == Expr(g, <<"{}">>, ORDER_ATOMIC)

lists_create_with(g, w, b) ==
  LET elements == [i \in 1..Len(b.ADD) |->
                     Or(valueToCode(b.ADD[i], ORDER_NONE), <<"{}">>)]
      f == getflattentocelllist(g)
  IN Expr(f.g, <<f.name, "({">> \o Join(elements, <<", ">>) \o <<"})">>,
          ORDER_ATOMIC)

lists_repeat(g, w, b) ==
  LET item == Or(valueToCode(b.ITEM, ORDER_NONE), <<"{}">>)
      times == Or(valueToCode(b.NUM, ORDER_MULTIPLICATIVE), <<"0">>)
      f == getflattentocelllist(g)
  IN Expr(f.g, <<"repmat(", f.name, "(">> \o item \o <<"), 1, ">>
                 \o times \o <<")">>,
          ORDER_MULTIPLICATIVE)

lists_length(g, w, b) ==
  LET list == Or(valueToCode(b.VALUE, ORDER_NONE), <<"{}">>)
  IN Expr(g, <<"length(">> \o list \o <<")">>, ORDER_FUNCTION_CALL)

lists_isEmpty(g, w, b) ==
  LET list == Or(valueToCode(b.VALUE, ORDER_NONE), <<"{}">>)
  IN Expr(g, <<"isempty(">> \o list \o <<")">>, ORDER_LOGICAL_NOT)

indexCode(loop) ==
  << "function index = ", FUNCTION_NAME_PLACEHOLDER_, "(my_list, elem)", NL,
     loop, NL,
     "    if isequal(my_list(index), elem)", NL,
     "      return;", NL,
     "    end", NL,
     "  end", NL,
     "  index =", " 0", ";", NL,
     "end" >>

lists_indexOf(g, w, b) ==
  LET item == Or(valueToCode(b.FIND, ORDER_NONE), <<"{}">>)
      list == Or(valueToCode(b.VALUE, ORDER_NONE), <<"{}">>)
      f == IF b.END = "FIRST"
           THEN provideFunction_(g, "first_index",
                                 indexCode("  for index = 1:numel(my_list)"))
           ELSE provideFunction_(g, "last_index",
                                 indexCode("  for index = numel(my_list):-1:1"))
  IN Expr(f.g, <<f.name, "(", "flattentocelllist", "(">> \o list
                 \o <<"), ", "flattentocelllist", "(">> \o item \o <<"))">>,
          ORDER_FUNCTION_CALL)

getRemoveAtCode ==
  << "function v = ", FUNCTION_NAME_PLACEHOLDER_, "(list, at, dontremove)", NL,
     "  if at < 0", NL,
     "    at = length(list) + 1 + at;", NL,
     "  elseif at == 0", NL,
     "    at = randi(length(list));", NL,
     "  end", NL,
     "  v = list{at};", NL,
     "  if dontremove", NL,
     "    return;", NL,
     "  end", NL,
     "  list = list([1:(at-1), (at+1):length(list)]);", NL,
     "  assignin('caller', inputname(1), list);", NL,
     "end" >>

\* block.getFieldValue(name) || dflt, "" standing for an absent field.
FieldOr(v, dflt) == IF v = "" THEN dflt ELSE v

lists_getIndex(g, w, b) ==
  LET f == provideFunction_(g, "getRemoveAt", getRemoveAtCode)
      getRemoveAt == f.name
      mode == FieldOr(b.MODE, "GET")
      where == FieldOr(b.WHERE, "FROM_START")
      listOrder == IF where = "RANDOM" THEN ORDER_NONE ELSE ORDER_MEMBER
      list == Or(valueToCode(b.VALUE, listOrder), <<"{}">>)
      Call(at, tail) == <<getRemoveAt, "(">> \o list \o <<", ">> \o at \o tail
      unhandled == Throw(f.g, "Unhandled combination (lists_getIndex).")
  IN CASE where = "FIRST" ->
            ( CASE mode = "GET" ->
                     Expr(f.g, list \o <<"{1}">>, ORDER_MEMBER)
                [] mode = "GET_REMOVE" ->
                     Expr(f.g, Call(<<"1">>, <<", 0)">>), ORDER_FUNCTION_CALL)
                [] mode = "REMOVE" ->
                     Stmt(f.g, list \o <<" = ">> \o list \o <<"(2:end);", NL>>)
                [] OTHER -> unhandled )
       [] where = "LAST" ->
            ( CASE mode = "GET" ->
                     Expr(f.g, list \o <<"{end}">>, ORDER_MEMBER)
                [] mode = "GET_REMOVE" ->
                     Expr(f.g, Call(<<"-1">>, <<", 0)">>), ORDER_FUNCTION_CALL)
                [] mode = "REMOVE" ->
                     Stmt(f.g, list \o <<" = ">> \o list \o <<"(1:end-1);", NL>>)
                [] OTHER -> unhandled )
       [] where = "FROM_START" ->
            LET at == getAdjustedInt(w, b.AT, 1, FALSE).code
            IN ( CASE mode = "GET" ->
                        Expr(f.g, list \o <<"{">> \o at \o <<"}">>, ORDER_MEMBER)
                   [] mode = "GET_REMOVE" ->
                        Expr(f.g, Call(at, <<", 0)">>), ORDER_FUNCTION_CALL)
                   [] mode = "REMOVE" ->
                        Stmt(f.g, Call(at, <<", 0);", NL>>))
                   [] OTHER -> unhandled )
       [] where = "FROM_END" ->
            LET at == getAdjustedInt(w, b.AT, 1, TRUE).code
            IN ( CASE mode = "GET" ->
                        Expr(f.g, list \o <<"{end+1">> \o at \o <<"}">>,
                             ORDER_MEMBER)
                   [] mode = "GET_REMOVE" ->
                        Expr(f.g, Call(at, <<", 0)">>), ORDER_FUNCTION_CALL)
                   [] mode = "REMOVE" ->
                        Stmt(f.g, Call(at, <<", 0);", NL>>))
                   [] OTHER -> unhandled )
       [] where = "RANDOM" ->
            ( CASE mode = "GET" ->
                     Expr(f.g, Call(<<"0">>, <<", 1)">>), ORDER_FUNCTION_CALL)
                [] mode = "GET_REMOVE" ->
                     Expr(f.g, Call(<<"0">>, <<", 0)">>), ORDER_FUNCTION_CALL)
                [] mode = "REMOVE" ->
                     Stmt(f.g, Call(<<"0">>, <<", 0);", NL>>))
                [] OTHER -> unhandled )
       [] OTHER -> unhandled

lists_setIndex(g, w, b) ==
  LET list0 == Or(valueToCode(b.LIST, ORDER_MEMBER), <<"{}">>)
      mode == FieldOr(b.MODE, "GET")
      where == FieldOr(b.WHERE, "FROM_START")
      value == <<"flattentocelllist", "(">>
                 \o Or(valueToCode(b.TO, ORDER_NONE), <<"[]">>) \o <<")">>
      Set(list, at) == list \o <<"(">> \o at \o <<") = ">> \o value \o <<";", NL>>
      unhandled == Throw(g, "Unhandled combination (lists_setIndex).")
  IN CASE where = "FIRST" ->
            ( CASE mode = "SET" -> Stmt(g, Set(list0, <<"1">>))
                [] mode = "INSERT" ->
                     Stmt(g, list0 \o <<" = [">> \o value \o <<", ">> \o list0
                               \o <<"];", NL>>)
                [] OTHER -> unhandled )
       [] where = "LAST" ->
            ( CASE mode = "SET" -> Stmt(g, Set(list0, <<"end">>))
                [] mode = "INSERT" -> Stmt(g, Set(list0, <<"end+1">>))
                [] OTHER -> unhandled )
       [] where = "FROM_START" ->
            LET at == getAdjustedInt(w, b.AT, 1, FALSE).code
            IN ( CASE mode = "SET" -> Stmt(g, Set(list0, at))
                   [] mode = "INSERT" ->
                        Stmt(g, list0 \o <<" = [">> \o list0 \o <<"(1:">> \o at
                                  \o <<"-1), ">> \o value \o <<", ">> \o list0
                                  \o <<"(">> \o at \o <<":end)];", NL>>)
                   [] OTHER -> unhandled )
       [] where = "FROM_END" ->
            LET at == getAdjustedInt(w, b.AT, 1, TRUE).code
            IN ( CASE mode = "SET" -> Stmt(g, Set(list0, <<"end+1">> \o at))
                   [] mode = "INSERT" ->
                        Stmt(g, list0 \o <<" = [">> \o list0 \o <<"(1:end+1">>
                                  \o at \o <<"-1), ">> \o value \o <<", ">>
                                  \o list0 \o <<"(end+1">> \o at
                                  \o <<":end)];", NL>>)
                   [] OTHER -> unhandled )
       [] where = "RANDOM" ->
            \* cacheList(), then the temporary for the random index
            LET cached == ~IsWord(list0, g.nameDB_.dbReverse)
                l == IF cached THEN GetDistinctName(g.nameDB_, "tmp_list")
                     ELSE [db |-> g.nameDB_, name |-> ""]
                list == IF cached THEN <<l.name>> ELSE list0
                code0 == IF cached
                         THEN <<l.name, " = ">> \o list0 \o <<NL>>
                         ELSE <<>>
                x == GetDistinctName(l.db, "tmp_x")
                g2 == WithDB(g, x.db)
                code1 == code0 \o <<x.name, " = randi(length(">> \o list
                           \o <<"));", NL>>
            IN ( CASE mode = "SET" -> Stmt(g2, code1 \o Set(list, <<x.name>>))
                   [] mode = "INSERT" ->
                        Stmt(g2, code1 \o list \o <<" = [">> \o list \o <<"(1:">>
                                   \o <<x.name, "-1), ">> \o value \o <<", ">>
                                   \o list \o <<"(", x.name, ":end)];", NL>>)
                   [] OTHER ->
                        Throw(g2, "Unhandled combination (lists_setIndex).") )
       [] OTHER -> unhandled

lists_getSublist(g, w, b) ==
  LET list == Or(valueToCode(b.LIST, ORDER_MEMBER), <<"{}">>)
      where1 == b.WHERE1
      where2 == b.WHERE2
      a1 == getAdjustedInt(w, b.AT1, 1, where1 = "FROM_END")
      at1 == CASE where1 = "FROM_START" ->
                    IF a1.num /\ a1.n = 0 THEN <<"1">> ELSE a1.code
               [] where1 = "FROM_END" -> <<"end+1">> \o a1.code
               [] OTHER -> <<"1">>
      a2 == getAdjustedInt(w, b.AT2, 1, where2 = "FROM_END")
      at2 == CASE where2 = "FROM_START" -> a2.code
               [] where2 = "FROM_END" ->
                    IF ~a2.num THEN <<"end">>
                    ELSE IF a2.n = 0 THEN <<"end">>
                    ELSE <<"end+1">> \o a2.code
               [] OTHER -> <<"end">>
  IN IF where1 \notin {"FROM_START", "FROM_END", "FIRST"}
        \/ where2 \notin {"FROM_START", "FROM_END", "LAST"}
     THEN Throw(g, "Unhandled option (lists_getSublist)")
     ELSE Expr(g, list \o <<"(">> \o at1 \o <<":">> \o at2 \o <<")">>,
               ORDER_MEMBER)

lists_sortCode ==
  << "function sorted = ", FUNCTION_NAME_PLACEHOLDER_, "(my_list, type, mode)", NL,
     "  switch(type)", NL,
     "    case 'TEXT'", NL,
     "      sorted = sort(my_list, mode);", NL,
     "    case 'IGNORE_CASE'", NL,
     "      [~, idx] = sort(lower(my_list), mode);", NL,
     "      sorted = my_list(idx);", NL,
     "    case 'NUMERIC'", NL,
     "      [~, idx] = sort(cell2mat(my_list), mode);", NL,
     "      sorted = my_list(idx);", NL,
     "  end", NL,
     "end", NL >>

lists_sort(g, w, b) ==
  LET list == Or(valueToCode(b.LIST, ORDER_NONE), <<"{}">>)
      type == b.TYPE
      reverse == IF b.DIRECTION = "1" THEN "ascend" ELSE "descend"
      f == provideFunction_(g, "lists_sort", lists_sortCode)
  IN Expr(f.g, <<f.name, "(">> \o list
                 \o <<", '", type, "', '", reverse, "')">>,
          ORDER_FUNCTION_CALL)

lists_split(g, w, b) ==
  CASE b.MODE = "SPLIT" ->
         LET value_input == Or(valueToCode(b.INPUT, ORDER_MEMBER), <<"''">>)
             value_delim == valueToCode(b.DELIM, ORDER_NONE)
         IN Expr(g, <<"strsplit(">> \o value_input \o <<", ">> \o value_delim
                      \o <<")">>, ORDER_FUNCTION_CALL)
    [] b.MODE = "JOIN" ->
         LET value_input == Or(valueToCode(b.INPUT, ORDER_NONE), <<"{}">>)
             value_delim == Or(valueToCode(b.DELIM, ORDER_MEMBER), <<"''">>)
         IN Expr(g, <<"strjoin(">> \o value_input \o <<", ">> \o value_delim
                      \o <<")">>, ORDER_FUNCTION_CALL)
    [] OTHER -> Throw(g, "Unknown mode: " \o b.MODE)

lists_reverse(g, w, b) ==
  LET list == Or(valueToCode(b.LIST, ORDER_NONE), <<"{}">>)
  IN Expr(g, <<"flip(">> \o list \o <<")">>, ORDER_FUNCTION_CALL)

(***************************************************************************)
(* generators/matlab/loops.js                                              *)
(* STATEMENT_PREFIX, STATEMENT_SUFFIX and INFINITE_LOOP_TRAP are not set,  *)
(* so addLoopTrap returns the branch it is given.  The number literals of  *)
(* the model are integers.                                                 *)
(***************************************************************************)
\* Matlab.PASS, as init sets it.
PASS == <<INDENT, "pass", NL>>

addLoopTrap(branch) == branch

controls_repeat_ext(g, w, b) ==
  LET repeats0 == IF b.type = "controls_repeat"
                  THEN <<ToString(b.TIMES)>>
                  ELSE Or(valueToCode(b.TIMES, ORDER_NONE), <<"0">>)
      repeats == IF IsNumber(repeats0) THEN <<ToString(ParseInt(repeats0))>>
                 ELSE <<"int(">> \o repeats0 \o <<")">>
      branch == Or(addLoopTrap(b.DO), PASS)
      loopVar == GetDistinctName(g.nameDB_, "count")
  IN Stmt(WithDB(g, loopVar.db),
          <<"for ", loopVar.name, " in range(">> \o repeats \o <<"):", NL>>
            \o branch)

controls_whileUntil(g, w, b) ==
  LET until == b.MODE = "UNTIL"
      argument0 == Or(valueToCode(b.BOOL, IF until THEN ORDER_LOGICAL_NOT
                                                  ELSE ORDER_NONE),
                      <<"False">>)
      branch == Or(addLoopTrap(b.DO), PASS)
  IN Stmt(g, <<"while ">> \o (IF until THEN <<"not ">> ELSE <<>>) \o argument0
               \o <<":", NL>> \o branch)

defineUpRange(g) ==
  provideFunction_(g, "upRange",
    << "def ", FUNCTION_NAME_PLACEHOLDER_, "(start, stop, step):", NL,
       "  while start <= stop:", NL,
       "    yield start", NL,
       "    start += abs(step)" >>)

defineDownRange(g) ==
  provideFunction_(g, "downRange",
    << "def ", FUNCTION_NAME_PLACEHOLDER_, "(start, stop, step):", NL,
       "  while start >= stop:", NL,
       "    yield start", NL,
       "    start -= abs(step)" >>)

Abs(n) == IF n < 0 THEN 0 - n ELSE n

\* A mutant of scrub: an expression is coerced in place like a variable.
ScrubArgInPlace(db, arg, variable0, suffix) ==
  IF IsNumber(arg)
  THEN [db |-> db, num |-> TRUE, n |-> ParseInt(arg),
        arg |-> <<ToString(ParseInt(arg))>>, pre |-> <<>>]
  ELSE [db |-> db, num |-> FALSE, n |-> 0,
        arg |-> <<"float(">> \o arg \o <<")">>, pre |-> <<>>]

\* scrub(arg, suffix) of controls_for: [db, num, n, arg, pre], pre being the
\* assignment added to code.
ScrubArg(db, arg, variable0, suffix) ==
  IF IsNumber(arg)
  THEN [db |-> db, num |-> TRUE, n |-> ParseInt(arg),
        arg |-> <<ToString(ParseInt(arg))>>, pre |-> <<>>]
  ELSE IF IsWord(arg, db.dbReverse)
  THEN [db |-> db, num |-> FALSE, n |-> 0,
        arg |-> <<"float(">> \o arg \o <<")">>, pre |-> <<>>]
  ELSE LET v == GetDistinctName(db, variable0 \o suffix)
       IN [db |-> v.db, num |-> FALSE, n |-> 0, arg |-> <<v.name>>,
           pre |-> <<v.name, " = float(">> \o arg \o <<")", NL>>]

controls_for(g, w, b) ==
  LET v0 == GetName(g.nameDB_, b.VAR, "VARIABLE")
      variable0 == v0.name
      g0 == WithDB(g, v0.db)
      argument0 == Or(valueToCode(b.FROM, ORDER_NONE), <<"0">>)
      argument1 == Or(valueToCode(b.TO, ORDER_NONE), <<"0">>)
      increment == Or(valueToCode(b.BY, ORDER_NONE), <<"1">>)
      branch == Or(addLoopTrap(b.DO), PASS)
      Loop(code, range) ==
        code \o <<"for ", variable0, " in ">> \o range \o <<":", NL>> \o branch
  IN IF IsNumber(argument0) /\ IsNumber(argument1) /\ IsNumber(increment)
     THEN LET a0 == ParseInt(argument0)
              a1 == ParseInt(argument1)
              inc == Abs(ParseInt(increment))
              range ==
                IF a0 <= a1
                THEN (IF a0 = 0 /\ inc = 1 THEN <<ToString(a1 + 1)>>
                      ELSE <<ToString(a0), ", ", ToString(a1 + 1)>>)
                     \o (IF inc # 1 THEN <<", ", ToString(inc)>> ELSE <<>>)
                ELSE <<ToString(a0), ", ", ToString(a1 - 1), ", -",
                       ToString(inc)>>
          IN Stmt(g0, Loop(<<>>, <<"range(">> \o range \o <<")">>))
     ELSE LET startVar == ScrubArg(g0.nameDB_, argument0, variable0, "_start")
              endVar == ScrubArg(startVar.db, argument1, variable0, "_end")
              incVar == ScrubArg(endVar.db, increment, variable0, "_inc")
              g1 == WithDB(g0, incVar.db)
              code == startVar.pre \o endVar.pre \o incVar.pre
              args == <<"(">> \o startVar.arg \o <<", ">> \o endVar.arg
                        \o <<", ">> \o incVar.arg \o <<")">>
          IN IF startVar.num /\ endVar.num
             THEN LET f == IF startVar.n < endVar.n THEN defineUpRange(g1)
                           ELSE defineDownRange(g1)
                  IN Stmt(f.g, Loop(code, <<f.name>> \o args))
             ELSE LET up == defineUpRange(g1)
                      down == defineDownRange(up.g)
                  IN Stmt(down.g,
                          Loop(code, <<"(">> \o startVar.arg \o <<" <= ">>
                                  \o endVar.arg \o <<") and ", up.name>> \o args
                                  \o <<" or ", down.name>> \o args))

\* A mutant of controls_forEach: an empty branch is left empty.
controls_forEachEmpty(g, w, b) ==
  LET v0 == GetName(g.nameDB_, b.VAR, "VARIABLE")
      argument0 == Or(valueToCode(b.LIST, ORDER_RELATIONAL), <<"[]">>)
      branch == addLoopTrap(b.DO)
  IN Stmt(WithDB(g, v0.db),
          <<"for ", v0.name, " in ">> \o argument0 \o <<":", NL>> \o branch)

controls_forEach(g, w, b) ==
  LET v0 == GetName(g.nameDB_, b.VAR, "VARIABLE")
      argument0 == Or(valueToCode(b.LIST, ORDER_RELATIONAL), <<"[]">>)
      branch == Or(addLoopTrap(b.DO), PASS)
  IN Stmt(WithDB(g, v0.db),
          <<"for ", v0.name, " in ">> \o argument0 \o <<":", NL>> \o branch)

controls_flow_statements(g, w, b) ==
  CASE b.FLOW = "BREAK" -> Stmt(g, <<"break", NL>>)
    [] b.FLOW = "CONTINUE" -> Stmt(g, <<"continue", NL>>)
    [] OTHER -> Throw(g, "Unknown flow statement.")

(***************************************************************************)
(* generators/matlab.js, module Blockly.Matlab.logic                       *)
(***************************************************************************)
\* The text JavaScript concatenates for the value undefined.
Undefined == "undefined"

controls_if(g, w, b) ==
  LET Branch(i) ==
        <<(IF i = 1 THEN "if " ELSE "elseif ")>>
          \o Or(valueToCode(b.IF[i], ORDER_NONE), <<"false">>) \o <<NL>>
          \o Or(b.DO[i], PASS)
      F[i \in 0..Len(b.IF)] ==
        IF i = 0 THEN <<>> ELSE F[i - 1] \o Branch(i)
  IN Stmt(g, F[Len(b.IF)]
               \o (IF b.hasElse THEN <<"else", NL>> \o Or(b.ELSE, PASS)
                    ELSE <<>>)
               \o <<"end", NL>>)

logic_compare(g, w, b) ==
  LET operator == CASE b.OP = "EQ" -> "=="
                    [] b.OP = "NEQ" -> "~="
                    [] b.OP = "LT" -> "<"
                    [] b.OP = "LTE" -> "<="
                    [] b.OP = "GT" -> ">"
                    [] b.OP = "GTE" -> ">="
                    [] OTHER -> Undefined
      order == ORDER_RELATIONAL
      argument0 == Or(valueToCode(b.A, order), <<"0">>)
      argument1 == Or(valueToCode(b.B, order), <<"0">>)
  IN Expr(g, argument0 \o <<" ", operator, " ">> \o argument1, order)

\* A mutant of logic_operation: a missing operand is false for && as well.
logic_operationFalse(g, w, b) ==
  LET operator == IF b.OP = "AND" THEN "&&" ELSE "||"
      order == IF operator = "&&" THEN ORDER_LOGICAL_AND
               ELSE ORDER_LOGICAL_OR
      argument0 == Or(valueToCode(b.A, order), <<"false">>)
      argument1 == Or(valueToCode(b.B, order), <<"false">>)
  IN Expr(g, argument0 \o <<" ", operator, " ">> \o argument1, order)

logic_operation(g, w, b) ==
  LET operator == IF b.OP = "AND" THEN "&&" ELSE "||"
      order == IF operator = "&&" THEN ORDER_LOGICAL_AND
               ELSE ORDER_LOGICAL_OR
      a0 == valueToCode(b.A, order)
      a1 == valueToCode(b.B, order)
      defaultArgument == IF operator = "&&" THEN <<"true">> ELSE <<"false">>
      argument0 == IF a0 = <<>> /\ a1 = <<>> THEN <<"false">>
                   ELSE Or(a0, defaultArgument)
      argument1 == IF a0 = <<>> /\ a1 = <<>> THEN <<"false">>
                   ELSE Or(a1, defaultArgument)
  IN Expr(g, argument0 \o <<" ", operator, " ">> \o argument1, order)

logic_negate(g, w, b) ==
  LET argument0 == Or(valueToCode(b.BOOL, ORDER_LOGICAL_NOT), <<"true">>)
  IN Expr(g, <<"~">> \o argument0, ORDER_LOGICAL_NOT)

logic_boolean(g, w, b) ==
  Expr(g, IF b.BOOL = "TRUE" THEN <<"true">> ELSE <<"false">>, ORDER_ATOMIC)

logic_null(g, w, b) == Expr(g, <<"[]">>, ORDER_ATOMIC)

logic_ternary(g, w, b) ==
  LET value_if == Or(valueToCode(b.IF, ORDER_CONDITIONAL), <<"false">>)
      value_then == Or(valueToCode(b.THEN, ORDER_CONDITIONAL), <<"[]">>)
      value_else == Or(valueToCode(b.ELSE, ORDER_CONDITIONAL), <<"[]">>)
      f == provideFunction_(g, "ternarySubstituteOperator",
             << "function ret = ", FUNCTION_NAME_PLACEHOLDER_,
                "(varargin) ret = varargin{length(varargin)-varargin{1}}; end;" >>)
  IN Expr(f.g, <<f.name, "(">> \o value_if \o <<", ">> \o value_then
                 \o <<", ">> \o value_else \o <<")">>,
          ORDER_CONDITIONAL)

(***************************************************************************)
(* generators/matlab/math.js                                               *)
(***************************************************************************)
math_number(g, w, b) ==
  CASE b.NUM = "Infinity" -> Expr(g, <<"Inf">>, ORDER_FUNCTION_CALL)
    [] b.NUM = "-Infinity" -> Expr(g, <<"-Inf">>, ORDER_UNARY_SIGN)
    [] OTHER -> Expr(g, <<b.NUM>>,
                     IF ParseInt(<<b.NUM>>) < 0 THEN ORDER_UNARY_SIGN
                     ELSE ORDER_ATOMIC)

math_arithmetic(g, w, b) ==
  LET known == b.OP \in {"ADD", "MINUS", "MULTIPLY", "DIVIDE", "POWER"}
      operator == CASE b.OP = "ADD" -> " + "
                    [] b.OP = "MINUS" -> " - "
                    [] b.OP = "MULTIPLY" -> " * "
                    [] b.OP = "DIVIDE" -> " / "
                    [] OTHER -> " ^ "
      order == CASE b.OP \in {"ADD", "MINUS"} -> ORDER_ADDITIVE
                 [] b.OP \in {"MULTIPLY", "DIVIDE"} -> ORDER_MULTIPLICATIVE
                 [] OTHER -> ORDER_EXPONENTIATION
      argument0 == Or(valueToCode(b.A, order), <<"0">>)
      argument1 == Or(valueToCode(b.B, order), <<"0">>)
  IN IF ~known
     THEN \* tuple is undefined: reading tuple[0] throws
          Throw(g, "TypeError: Cannot read properties of undefined")
     ELSE Expr(g, argument0 \o <<operator>> \o argument1, order)

math_single(g, w, b) ==
  LET operator == b.OP
      arg == IF operator \in {"SIN", "COS", "TAN"}
             THEN Or(valueToCode(b.NUM, ORDER_MULTIPLICATIVE), <<"0">>)
             ELSE Or(valueToCode(b.NUM, ORDER_NONE), <<"0">>)
      Call(fn, tail) == Expr(g, <<fn>> \o arg \o <<tail>>, ORDER_FUNCTION_CALL)
      Deg(fn) == Expr(g, <<fn>> \o arg \o <<") / pi * 180">>,
                      ORDER_MULTIPLICATIVE)
  IN CASE operator = "NEG" ->
            Expr(g, <<"-">> \o Or(valueToCode(b.NUM, ORDER_UNARY_SIGN), <<"0">>),
                 ORDER_UNARY_SIGN)
       [] operator = "ABS" -> Call("abs(", ")")
       [] operator = "ROOT" -> Call("sqrt(", ")")
       [] operator = "LN" -> Call("log(", ")")
       [] operator = "LOG10" -> Call("log10(", ")")
       [] operator = "EXP" -> Call("exp(", ")")
       [] operator = "POW10" -> Call("power(10,", ")")
       [] operator = "ROUND" -> Call("round(", ")")
       [] operator = "ROUNDUP" -> Call("ceil(", ")")
       [] operator = "ROUNDDOWN" -> Call("floor(", ")")
       [] operator = "SIN" -> Call("sin(", " / 180.0 * pi)")
       [] operator = "COS" -> Call("cos(", " / 180.0 * pi)")
       [] operator = "TAN" -> Call("tan(", " / 180.0 * pi)")
       [] operator = "ASIN" -> Deg("asin(")
       [] operator = "ACOS" -> Deg("acos(")
       [] operator = "ATAN" -> Deg("atan(")
       [] OTHER -> Throw(g, "Unknown math operator: " \o operator)

math_number_property(g, w, b) ==
  LET number_to_check ==
        Or(valueToCode(b.NUMBER_TO_CHECK, ORDER_MULTIPLICATIVE), <<"0">>)
      dropdown_property == b.PROPERTY
      Mod(k) == <<"mod(">> \o number_to_check \o <<", ">> \o k
      code ==
        CASE dropdown_property = "PRIME" ->
               <<"isprime(">> \o number_to_check \o <<")">>
          [] dropdown_property = "EVEN" -> Mod(<<"2">>) \o <<") == 0">>
          [] dropdown_property = "ODD" -> Mod(<<"2">>) \o <<") == 1">>
          [] dropdown_property = "WHOLE" -> Mod(<<"1">>) \o <<") == 0">>
          [] dropdown_property = "POSITIVE" -> number_to_check \o <<" > 0">>
          [] dropdown_property = "NEGATIVE" -> number_to_check \o <<" < 0">>
          [] dropdown_property = "DIVISIBLE_BY" ->
               Mod(valueToCode(b.DIVISOR, ORDER_MULTIPLICATIVE)) \o <<") == 0">>
          [] OTHER -> <<Undefined>>
  IN Expr(g, code, ORDER_RELATIONAL)

math_constant(g, w, b) ==
  LET constant == b["CONSTANT"]
  IN CASE constant = "PI" -> Expr(g, <<"pi">>, ORDER_MEMBER)
       [] constant = "E" -> Expr(g, <<"e">>, ORDER_MEMBER)
       [] constant = "GOLDEN_RATIO" ->
            Expr(g, <<"(1 + sqrt(5)) / 2">>, ORDER_MULTIPLICATIVE)
       [] constant = "SQRT2" -> Expr(g, <<"sqrt(2)">>, ORDER_MEMBER)
       [] constant = "SQRT1_2" -> Expr(g, <<"sqrt(1.0 / 2)">>, ORDER_MEMBER)
       [] constant = "INFINITY" -> Expr(g, <<"Inf">>, ORDER_ATOMIC)
       [] OTHER -> Throw(g, "Invalid code generated: undefined")

math_change(g, w, b) ==
  LET argument0 == Or(valueToCode(b.DELTA, ORDER_ADDITIVE), <<"0">>)
      v == GetName(g.nameDB_, b.VAR, "VARIABLE")
  IN Stmt(WithDB(g, v.db),
          <<v.name, " = ", v.name, " + ">> \o argument0 \o <<";", NL>>)

math_on_list(g, w, b) ==
  LET func == b.OP
      list == Or(valueToCode(b.LIST, ORDER_NONE), <<"[]">>)
      Call(fn) == Expr(g, <<fn>> \o list \o <<")">>, ORDER_FUNCTION_CALL)
  IN CASE func = "SUM" -> Call("sum(")
       [] func = "MIN" -> Call("min(")
       [] func = "MAX" -> Call("max(")
       [] func = "AVERAGE" -> Call("mean(")
       [] func = "MEDIAN" -> Call("median(")
       [] func = "MODE" -> Call("mode(")
       [] func = "STD_DEV" -> Call("std(")
       [] func = "RANDOM" ->
            Expr(g, list \o <<"(randi(length(">> \o list \o <<")))">>,
                 ORDER_FUNCTION_CALL)
       [] OTHER -> Throw(g, "Unknown operator: " \o func)

math_modulo(g, w, b) ==
  LET argument0 == Or(valueToCode(b.DIVIDEND, ORDER_MULTIPLICATIVE), <<"0">>)
      argument1 == Or(valueToCode(b.DIVISOR, ORDER_MULTIPLICATIVE), <<"0">>)
  IN Expr(g, <<"mod(">> \o argument0 \o <<", ">> \o argument1 \o <<")">>,
          ORDER_MULTIPLICATIVE)

math_constrain(g, w, b) ==
  LET argument0 == Or(valueToCode(b.VALUE, ORDER_NONE), <<"0">>)
      argument1 == Or(valueToCode(b.LOW, ORDER_NONE), <<"0">>)
      argument2 == Or(valueToCode(b.HIGH, ORDER_NONE), <<"float('inf')">>)
  IN Expr(g, <<"min(max(">> \o argument0 \o <<", ">> \o argument1 \o <<"), ">>
               \o argument2 \o <<")">>, ORDER_FUNCTION_CALL)

math_random_int(g, w, b) ==
  LET argument0 == Or(valueToCode(b.FROM, ORDER_NONE), <<"0">>)
      argument1 == Or(valueToCode(b.TO, ORDER_NONE), <<"0">>)
  IN Expr(g, <<"randi([">> \o argument0 \o <<", ">> \o argument1 \o <<"])">>,
          ORDER_FUNCTION_CALL)

math_random_float(g, w, b) == Expr(g, <<"rand()">>, ORDER_FUNCTION_CALL)

math_atan2(g, w, b) ==
  LET argument0 == Or(valueToCode(b.X, ORDER_NONE), <<"0">>)
      argument1 == Or(valueToCode(b.Y, ORDER_NONE), <<"0">>)
  IN Expr(g, <<"atan2(">> \o argument1 \o <<", ">> \o argument0
               \o <<") / pi * 180">>, ORDER_MULTIPLICATIVE)

(***************************************************************************)
(* src/unnamed/part_000: the emitters of module Blockly.Matlab.math that   *)
(* add import fragments and guard the divisor                              *)
(***************************************************************************)
ImportMath(g) ==
  WithDef(g, "import_math", <<"import", " ", "math">>)

ImportNumber(g) ==
  WithDef(g, "from_numbers_import_Number",
          <<"from", " ", "numbers", " ", "import", " ", "Number">>)

math_single_0(g, w, b) ==
  LET operator == b.OP
      g1 == ImportMath(g)
      arg == IF operator \in {"SIN", "COS", "TAN"}
             THEN Or(valueToCode(b.NUM, ORDER_MULTIPLICATIVE), <<"0">>)
             ELSE Or(valueToCode(b.NUM, ORDER_NONE), <<"0">>)
      Call(fn, tail) == Expr(g1, <<fn>> \o arg \o <<tail>>, ORDER_FUNCTION_CALL)
      Deg(fn) == Expr(g1, <<fn>> \o arg \o <<") / math.pi * 180">>,
                      ORDER_MULTIPLICATIVE)
  IN CASE operator = "NEG" ->
            Expr(g, <<"-">> \o Or(valueToCode(b.NUM, ORDER_UNARY_SIGN), <<"0">>),
                 ORDER_UNARY_SIGN)
       [] operator = "ABS" -> Call("math.fabs(", ")")
       [] operator = "ROOT" -> Call("math.sqrt(", ")")
       [] operator = "LN" -> Call("math.log(", ")")
       [] operator = "LOG10" -> Call("math.log10(", ")")
       [] operator = "EXP" -> Call("math.exp(", ")")
       [] operator = "POW10" -> Call("math.pow(10,", ")")
       [] operator = "ROUND" -> Call("round(", ")")
       [] operator = "ROUNDUP" -> Call("math.ceil(", ")")
       [] operator = "ROUNDDOWN" -> Call("math.floor(", ")")
       [] operator = "SIN" -> Call("math.sin(", " / 180.0 * math.pi)")
       [] operator = "COS" -> Call("math.cos(", " / 180.0 * math.pi)")
       [] operator = "TAN" -> Call("math.tan(", " / 180.0 * math.pi)")
       [] operator = "ASIN" -> Deg("math.asin(")
       [] operator = "ACOS" -> Deg("math.acos(")
       [] operator = "ATAN" -> Deg("math.atan(")
       [] OTHER -> Throw(g1, "Unknown math operator: " \o operator)

math_isPrimeCode ==
  << "def ", FUNCTION_NAME_PLACEHOLDER_, "(n):", NL,
     "  # https://en.wikipedia.org/wiki/Primality_test#Naive_methods", NL,
     "  # If n is not a number but a string, try parsing it.", NL,
     "  if not isinstance(n, Number):", NL,
     "    try:", NL,
     "      n = float(n)", NL,
     "    except:", NL,
     "      return False", NL,
     "  if n == 2 or n == 3:", NL,
     "    return True", NL,
     "  # False if n is negative, is 1, or not whole, or if n is divisible by 2 or 3.", NL,
     "  if n <= 1 or n % 1 != 0 or n % 2 == 0 or n % 3 == 0:", NL,
     "    return False", NL,
     "  # Check all the numbers of form 6k +/- 1, up to sqrt(n).", NL,
     "  for x in range(6, int(math.sqrt(n)) + 2, 6):", NL,
     "    if n % (x - 1) == 0 or n % (x + 1) == 0:", NL,
     "      return False", NL,
     "  return True" >>

math_number_property_0(g, w, b) ==
  LET number_to_check ==
        Or(valueToCode(b.NUMBER_TO_CHECK, ORDER_MULTIPLICATIVE), <<"0">>)
      dropdown_property == b.PROPERTY
      divisor == valueToCode(b.DIVISOR, ORDER_MULTIPLICATIVE)
      Rel(code) == Expr(g, code, ORDER_RELATIONAL)
  IN CASE dropdown_property = "PRIME" ->
            LET f == provideFunction_(ImportNumber(ImportMath(g)),
                                      "math_isPrime", math_isPrimeCode)
            IN Expr(f.g, <<f.name, "(">> \o number_to_check \o <<")">>,
                    ORDER_FUNCTION_CALL)
       [] dropdown_property = "EVEN" -> Rel(number_to_check \o <<" % 2 == 0">>)
       [] dropdown_property = "ODD" -> Rel(number_to_check \o <<" % 2 == 1">>)
       [] dropdown_property = "WHOLE" -> Rel(number_to_check \o <<" % 1 == 0">>)
       [] dropdown_property = "POSITIVE" -> Rel(number_to_check \o <<" > 0">>)
       [] dropdown_property = "NEGATIVE" -> Rel(number_to_check \o <<" < 0">>)
       [] dropdown_property = "DIVISIBLE_BY" ->
            IF divisor = <<>> \/ divisor = <<"0">>
            THEN Expr(g, <<"False">>, ORDER_ATOMIC)
            ELSE Rel(number_to_check \o <<" % ">> \o divisor \o <<" == 0">>)
       [] OTHER -> Rel(<<Undefined>>)

\* The helper that math_on_list of unnamed/part_000 registers for MODE.
math_modesCode ==
  << "def ", FUNCTION_NAME_PLACEHOLDER_, "(some_list):", NL,
     "  modes = []", NL,
     "  # Using a lists of [item, count] to keep count rather than dict", NL,
     "  # to avoid \"unhashable\" errors when the counted item is itself a list or dict.", NL,
     "  counts = []", NL,
     "  maxCount = 1", NL,
     "  for item in some_list:", NL,
     "    found = False", NL,
     "    for count in counts:", NL,
     "      if count[0] == item:", NL,
     "        count[1] += 1", NL,
     "        maxCount = max(maxCount, count[1])", NL,
     "        found = True", NL,
     "    if not found:", NL,
     "      counts.append([item, 1])", NL,
     "  for counted_item, item_count in counts:", NL,
     "    if item_count == maxCount:", NL,
     "      modes.append(counted_item)", NL,
     "  return modes" >>

\* Matlab['math_on_list'] of unnamed/part_000.
math_on_list_0(g, w, b) ==
  LET func == b.OP
      list == Or(valueToCode(b.LIST, ORDER_NONE), <<"[]">>)
      Call(h, fn) == Expr(h, <<fn, "(">> \o list \o <<")">>,
                          ORDER_FUNCTION_CALL)
      Helper(h, desiredName, code) ==
        LET f == provideFunction_(h, desiredName, code)
        IN Call(f.g, f.name)
      math_meanCode ==
        << "def ", FUNCTION_NAME_PLACEHOLDER_, "(myList):", NL,
           "  localList = [e for e in myList if isinstance(e, Number)]", NL,
           "  if not localList: return", NL,
           "  return float(sum(localList)) / len(localList)" >>
      math_medianCode ==
        << "def ", FUNCTION_NAME_PLACEHOLDER_, "(myList):", NL,
           "  localList = sorted([e for e in myList if isinstance(e, Number)])", NL,
           "  if not localList: return", NL,
           "  if len(localList) % 2 == 0:", NL,
           "    return (localList[len(localList) // 2 - 1] + localList[len(localList) // 2]) / 2.0", NL,
           "  else:", NL,
           "    return localList[(len(localList) - 1) // 2]" >>
      math_standard_deviationCode ==
        << "def ", FUNCTION_NAME_PLACEHOLDER_, "(numbers):", NL,
           "  n = len(numbers)", NL,
           "  if n == 0: return", NL,
           "  mean = float(sum(numbers)) / n", NL,
           "  variance = sum((x - mean) ** 2 for x in numbers) / n", NL,
           "  return math.sqrt(variance)" >>
  IN CASE func = "SUM" -> Call(g, "sum")
       [] func = "MIN" -> Call(g, "min")
       [] func = "MAX" -> Call(g, "max")
       [] func = "AVERAGE" ->
            Helper(ImportNumber(g), "math_mean", math_meanCode)
       [] func = "MEDIAN" ->
            Helper(ImportNumber(g), "math_median", math_medianCode)
       [] func = "MODE" -> Helper(g, "math_modes", math_modesCode)
       [] func = "STD_DEV" ->
            Helper(ImportMath(g), "math_standard_deviation",
                   math_standard_deviationCode)
       [] func = "RANDOM" ->
            Call(WithDef(g, "import_random", <<"import", " ", "random">>),
                 "random.choice")
       [] OTHER -> Throw(g, "Unknown operator: " \o func)

(***************************************************************************)
(* generators/matlab/variables.js                                          *)
(***************************************************************************)
variables_get(g, w, b) ==
  LET v == GetName(g.nameDB_, b.VAR, "VARIABLE")
  IN Expr(WithDB(g, v.db), <<v.name>>, ORDER_ATOMIC)

variables_set(g, w, b) ==
  LET argument0 == Or(valueToCode(b.VALUE, ORDER_NONE), <<"0">>)
      v == GetName(g.nameDB_, b.VAR, "VARIABLE")
  IN Stmt(WithDB(g, v.db), <<v.name, " = ">> \o argument0 \o <<";", NL>>)

(***************************************************************************)
(* generators/matlab/text.js (module Blockly.Matlab.texts)                 *)
(***************************************************************************)
\* The single-quoted string literals of the model.
StrLiterals == {"''", "'abc'"}

\* strRegExp.test(value)
IsStrLiteral(value) == Len(value) = 1 /\ value[1] \in StrLiterals

forceString(value) ==
  IF IsStrLiteral(value) THEN [code |-> value, order |-> ORDER_ATOMIC]
  ELSE [code |-> <<"char(">> \o value \o <<")">>,
        order |-> ORDER_FUNCTION_CALL]

Elements(slots) ==
  [i \in 1..Len(slots) |-> Or(valueToCode(slots[i], ORDER_NONE), <<"''">>)]

text_join(g, w, b) ==
  LET itemCount_ == Len(b.ADD)
      elements == Elements(b.ADD)
  IN CASE itemCount_ = 0 -> Expr(g, <<"''">>, ORDER_ATOMIC)
       [] itemCount_ = 1 ->
            Expr(g, forceString(elements[1]).code,
                 forceString(elements[1]).order)
       [] itemCount_ = 2 ->
            Expr(g, <<"[ ">> \o forceString(elements[1]).code \o <<" , ">>
                      \o forceString(elements[2]).code \o <<" ]">>,
                 ORDER_ADDITIVE)
       [] OTHER ->
            LET tempVar == GetDistinctName(g.nameDB_, "x")
            IN Expr(WithDB(g, tempVar.db),
                    <<"[">> \o Join(elements, <<", ">>) \o <<"]">>,
                    ORDER_FUNCTION_CALL)

text_append(g, w, b) ==
  LET v == GetName(g.nameDB_, b.VAR, "VARIABLE")
      value == Or(valueToCode(b.TEXT, ORDER_NONE), <<"''">>)
  IN Stmt(WithDB(g, v.db),
          <<v.name, " = [char(", v.name, ") , ">> \o forceString(value).code
            \o <<"];", NL>>)

text_length(g, w, b) ==
  LET text == Or(valueToCode(b.VALUE, ORDER_NONE), <<"''">>)
  IN Expr(g, <<"length(">> \o text \o <<")">>, ORDER_FUNCTION_CALL)

text_isEmpty(g, w, b) ==
  LET text == Or(valueToCode(b.VALUE, ORDER_NONE), <<"''">>)
  IN Expr(g, <<"isempty(">> \o text \o <<")">>, ORDER_LOGICAL_NOT)

text_indexOf(g, w, b) ==
  LET operator == IF b.END = "FIRST" THEN "min" ELSE "max"
      substring == Or(valueToCode(b.FIND, ORDER_NONE), <<"''">>)
      text == Or(valueToCode(b.VALUE, ORDER_MEMBER), <<"''">>)
  IN Expr(g, <<operator, "(strfind(">> \o text \o <<", ">> \o substring
               \o <<", 'overlaps', false))">>, ORDER_FUNCTION_CALL)

\* The index text of the FROM_END cases of text_charAt, text_getSubstring.
FromEnd(at) ==
  IF ~at.num THEN at.code \o <<"end">>
  ELSE IF at.n = 0 THEN <<"end">>
  ELSE <<"end">> \o at.code

text_charAt(g, w, b) ==
  LET where == FieldOr(b.WHERE, "FROM_START")
      textOrder == IF where = "RANDOM" THEN ORDER_NONE ELSE ORDER_MEMBER
      text == Or(valueToCode(b.VALUE, textOrder), <<"''">>)
  IN CASE where = "FIRST" -> Expr(g, text \o <<"(1)">>, ORDER_MEMBER)
       [] where = "LAST" -> Expr(g, text \o <<"(end)">>, ORDER_MEMBER)
       [] where = "FROM_START" ->
            Expr(g, text \o <<"(">> \o getAdjustedInt(w, b.AT, 1, FALSE).code
                      \o <<")">>, ORDER_MEMBER)
       [] where = "FROM_END" ->
            Expr(g, text \o <<"(">>
                      \o FromEnd(getAdjustedInt(w, b.AT, 0, TRUE))
                      \o <<")">>, ORDER_MEMBER)
       [] where = "RANDOM" ->
            Expr(g, text \o <<"(randi(length(">> \o text \o <<")))">>,
                 ORDER_FUNCTION_CALL)
       [] OTHER -> Throw(g, "Unhandled option (text_charAt).")

\* at === 0 becomes '1' in the FROM_START cases of text_getSubstring.
FromStart(at) == IF at.num /\ at.n = 0 THEN <<"1">> ELSE at.code

text_getSubstring(g, w, b) ==
  LET where1 == b.WHERE1
      where2 == b.WHERE2
      text == Or(valueToCode(b.STRING, ORDER_MEMBER), <<"''">>)
      at1 == CASE where1 = "FROM_START" ->
                    FromStart(getAdjustedInt(w, b.AT1, 1, FALSE))
               [] where1 = "FROM_END" ->
                    FromEnd(getAdjustedInt(w, b.AT1, 0, TRUE))
               [] OTHER -> <<"1">>
      at2 == CASE where2 = "FROM_START" ->
                    FromStart(getAdjustedInt(w, b.AT2, 1, FALSE))
               [] where2 = "FROM_END" ->
                    FromEnd(getAdjustedInt(w, b.AT2, 0, TRUE))
               [] OTHER -> <<"end">>
  IN IF where1 \notin {"FROM_START", "FROM_END", "FIRST"}
     THEN Throw(g, "Unhandled option (text_getSubstring)")
     ELSE IF where2 \notin {"FROM_START", "FROM_END", "LAST"}
     THEN Throw(g, "Unhandled option (text_getSubstring)")
     ELSE Expr(g, text \o <<"(">> \o at1 \o <<":">> \o at2 \o <<")">>,
               ORDER_MEMBER)

totitlecaseCode ==
  << "function outtext = ", FUNCTION_NAME_PLACEHOLDER_, "(intext)", NL,
     INDENT, "doit = logical([1 isspace(intext)(1:end-1)]);", NL,
     INDENT, "outtext = lower(intext); outtext(doit) = upper(intext(doit));",
     NL, "end" >>

text_changeCase(g, w, b) ==
  LET operator == CASE b.CASE = "UPPERCASE" -> "upper("
                    [] b.CASE = "LOWERCASE" -> "lower("
                    [] b.CASE = "TITLECASE" -> "totitlecase("
                    [] OTHER -> Undefined
      g1 == IF b.CASE = "TITLECASE"
            THEN provideFunction_(g, "totitlecase", totitlecaseCode).g
            ELSE g
      text == Or(valueToCode(b.TEXT, ORDER_MEMBER), <<"''">>)
  IN Expr(g1, <<operator>> \o text \o <<")">>, ORDER_FUNCTION_CALL)

lstripCode ==
  << "function outtext = ", FUNCTION_NAME_PLACEHOLDER_, "(intext)", NL,
     INDENT, "outtext = intext(min(find(~isspace(intext))):end);", NL,
     "end" >>

text_trim(g, w, b) ==
  LET operator == CASE b.MODE = "LEFT" -> "lstrip("
                    [] b.MODE = "RIGHT" -> "deblank("
                    [] b.MODE = "BOTH" -> "strtrim("
                    [] OTHER -> Undefined
      text == Or(valueToCode(b.TEXT, ORDER_MEMBER), <<"''">>)
      g1 == IF b.MODE = "LEFT"
            THEN provideFunction_(g, "lstrip", lstripCode).g
            ELSE g
  IN Expr(g1, <<operator>> \o text \o <<")">>, ORDER_FUNCTION_CALL)

text_print(g, w, b) ==
  LET msg == Or(valueToCode(b.TEXT, ORDER_NONE), <<"''">>)
  IN Stmt(g, <<"disp(">> \o msg \o <<");", NL>>)

text_prompt_ext(g, w, b) ==
  LET msg == Or(valueToCode(b.TEXT, ORDER_NONE), <<"''">>)
      code == <<"input(">> \o msg \o <<", 's')">>
      toNumber == b.TYPE = "NUMBER"
  IN Expr(g, IF toNumber THEN <<"str2num(">> \o code \o <<")">> ELSE code,
          ORDER_FUNCTION_CALL)

text_count(g, w, b) ==
  LET text == Or(valueToCode(b.TEXT, ORDER_MEMBER), <<"''">>)
      sub == Or(valueToCode(b.SUB, ORDER_NONE), <<"''">>)
  IN Expr(g, <<"length(strfind(">> \o text \o <<", ">> \o sub \o <<")">>,
          ORDER_FUNCTION_CALL)

text_replace(g, w, b) ==
  LET text == Or(valueToCode(b.TEXT, ORDER_MEMBER), <<"''">>)
      from == Or(valueToCode(b.FROM, ORDER_NONE), <<"''">>)
      to == Or(valueToCode(b.TO, ORDER_NONE), <<"''">>)
  IN Expr(g, <<"strrep(">> \o text \o <<", ">> \o from \o <<", ">> \o to
               \o <<", 'overlaps', false)">>, ORDER_MEMBER)

text_reverse(g, w, b) ==
  LET text == Or(valueToCode(b.TEXT, ORDER_MEMBER), <<"''">>)
  IN Expr(g, text \o <<"(end:-1:1)">>, ORDER_MEMBER)

(***************************************************************************)
(* generators/matlab/procedures.js                                         *)
(***************************************************************************)
\* The names of the sequence vs that are not in params, in order.
Without(vs, params) ==
  LET F[i \in 0..Len(vs)] ==
        IF i = 0 THEN <<>>
        ELSE IF \E j \in 1..Len(params) : params[j] = vs[i] THEN F[i - 1]
             ELSE Append(F[i - 1], vs[i])
  IN F[Len(vs)]

\* nameDB_.getName(v, VARIABLE) of each of vs, as one-token texts.
VarNames(db, vs) ==
  [i \in 1..Len(vs) |-> <<GetName(db, vs[i], "VARIABLE").name>>]

procedures_defreturn(g, w, b) ==
  LET db1 == Populate(g.nameDB_, Without(w.vars, b.params), "VARIABLE")
      globals == VarNames(db1, Without(w.vars, b.params))
      globalString == IF globals # <<>>
                      THEN <<INDENT, "global ">> \o Join(globals, <<", ">>)
                             \o <<NL>>
                      ELSE <<>>
      f == GetName(db1, b.NAME, "PROCEDURE")
      rv == valueToCode(b.RETURN, ORDER_NONE)
      returnValue == IF rv # <<>> THEN <<INDENT, "return ">> \o rv \o <<NL>>
                     ELSE <<>>
      branch == IF rv = <<>> /\ b.STACK = <<>> THEN PASS ELSE b.STACK
      db2 == Populate(f.db, b.params, "VARIABLE")
      args == VarNames(db2, b.params)
      code == <<"def ", f.name, "(">> \o Join(args, <<", ">>) \o <<"):", NL>>
                \o globalString \o branch \o returnValue
  IN Stmt(WithDef(WithDB(g, db2), "%" \o f.name, code), <<>>)

Args(slots) ==
  [i \in 1..Len(slots) |-> Or(valueToCode(slots[i], ORDER_NONE), <<"None">>)]

procedures_callreturn(g, w, b) ==
  LET f == GetName(g.nameDB_, b.NAME, "PROCEDURE")
  IN Expr(WithDB(g, f.db),
          <<f.name, "(">> \o Join(Args(b.ARG), <<", ">>) \o <<")">>,
          ORDER_FUNCTION_CALL)

\* A mutant of procedures_callnoreturn: the line ending is not added.
procedures_callnoreturnBare(g, w, b) ==
  LET tuple == procedures_callreturn(g, w, b)
  IN Stmt(tuple.g, tuple.code)

procedures_callnoreturn(g, w, b) ==
  LET tuple == procedures_callreturn(g, w, b)
  IN Stmt(tuple.g, tuple.code \o <<NL>>)

procedures_ifreturn(g, w, b) ==
  LET condition == Or(valueToCode(b.CONDITION, ORDER_NONE), <<"False">>)
      value == Or(valueToCode(b.VALUE, ORDER_NONE), <<"None">>)
  IN Stmt(g, <<"if ">> \o condition \o <<":", NL>>
               \o (IF b.hasReturnValue_
                   THEN <<INDENT, "return ">> \o value \o <<NL>>
                   ELSE <<INDENT, "return", NL>>))

(***************************************************************************)
(* The blocks of the model: a record of the block's type, its fields, its  *)
(* value slots (slots names them) and its statement texts.  rev names the  *)
(* file a block type with two definitions is rendered by.  An enumerated   *)
(* field also takes the value Bogus, which no emitter knows.               *)
(***************************************************************************)
Bogus == "BOGUS"

Enum(values) == values \cup {Bogus}

Atom(token) == Child(<<token>>, ORDER_ATOMIC)

\* What a value slot can hold: nothing, a variable, a sum.
ValSlots == {Unfilled, Atom("x"), Child(<<"x", " + ", "1">>, ORDER_ADDITIVE)}

\* A number block in a slot, as math_number renders it.
NumChild(n) ==
  Child(<<ToString(n)>>, IF n < 0 THEN ORDER_UNARY_SIGN ELSE ORDER_ATOMIC)

NumSlots == {Unfilled, Atom("x")} \cup {NumChild(n) : n \in NumRange}

FewSlots == {Unfilled, Atom("x")}

IdxSlots == {Unfilled, Atom("1"), Atom("x")}

StrSlots == {Unfilled, Atom("'abc'"), Atom("x")}

\* What statementToCode returns for a statement input: nothing, or a line.
Branches == {<<>>, <<INDENT, "x = 0;", NL>>}

Blocks_lists ==
  {[type |-> "lists_create_empty", slots |-> {}]}
  \cup {[type |-> "lists_create_with", slots |-> {}, seq |-> "ADD", ADD |-> a] :
          a \in {<<>>} \cup {<<x>> : x \in ValSlots}
                 \cup {<<x, y>> : x \in FewSlots, y \in FewSlots}}
  \cup {[type |-> "lists_repeat", slots |-> {"ITEM", "NUM"}, ITEM |-> i, NUM |-> n] :
          i \in ValSlots, n \in ValSlots}
  \cup {[type |-> t, slots |-> {"VALUE"}, VALUE |-> v] :
          t \in {"lists_length", "lists_isEmpty"}, v \in ValSlots}
  \cup {[type |-> "lists_indexOf", slots |-> {"FIND", "VALUE"}, END |-> e,
          FIND |-> f, VALUE |-> v] :
          e \in Enum({"FIRST", "LAST"}), f \in ValSlots, v \in ValSlots}
  \cup {[type |-> "lists_getIndex", slots |-> {"VALUE", "AT"}, MODE |-> m,
          WHERE |-> wh, VALUE |-> v, AT |-> a] :
          m \in Enum({"GET", "GET_REMOVE", "REMOVE"}),
          wh \in Enum({"FIRST", "LAST", "FROM_START", "FROM_END", "RANDOM"}),
          v \in ValSlots, a \in NumSlots}
  \cup {[type |-> "lists_setIndex", slots |-> {"LIST", "TO", "AT"}, MODE |-> m,
          WHERE |-> wh, LIST |-> l, TO |-> t, AT |-> a] :
          m \in Enum({"SET", "INSERT"}),
          wh \in Enum({"FIRST", "LAST", "FROM_START", "FROM_END", "RANDOM"}),
          l \in ValSlots, t \in FewSlots, a \in NumSlots}
  \cup {[type |-> "lists_getSublist", slots |-> {"LIST", "AT1", "AT2"},
          WHERE1 |-> w1, WHERE2 |-> w2, LIST |-> l, AT1 |-> a1, AT2 |-> a2] :
          w1 \in Enum({"FROM_START", "FROM_END", "FIRST"}),
          w2 \in Enum({"FROM_START", "FROM_END", "LAST"}),
          l \in FewSlots, a1 \in NumSlots, a2 \in IdxSlots}
  \cup {[type |-> "lists_sort", slots |-> {"LIST"}, TYPE |-> t,
          DIRECTION |-> d, LIST |-> l] :
          t \in Enum({"NUMERIC", "TEXT", "IGNORE_CASE"}),
          d \in Enum({"1", "-1"}), l \in ValSlots}
  \cup {[type |-> "lists_split", slots |-> {"INPUT", "DELIM"}, MODE |-> m,
          INPUT |-> i, DELIM |-> d] :
          m \in Enum({"SPLIT", "JOIN"}), i \in ValSlots, d \in StrSlots}
  \cup {[type |-> "lists_reverse", slots |-> {"LIST"}, LIST |-> l] :
          l \in ValSlots}

Blocks_loops ==
  {[type |-> "controls_repeat", slots |-> {}, TIMES |-> n, DO |-> d] :
     n \in 0..MaxNum, d \in Branches}
  \cup {[type |-> "controls_repeat_ext", slots |-> {"TIMES"}, TIMES |-> n,
          DO |-> d] : n \in NumSlots, d \in Branches}
  \cup {[type |-> "controls_whileUntil", slots |-> {"BOOL"}, MODE |-> m,
          BOOL |-> c, DO |-> d] :
          m \in Enum({"WHILE", "UNTIL"}), c \in ValSlots, d \in Branches}
  \cup {[type |-> "controls_for", slots |-> {"FROM", "TO", "BY"}, VAR |-> "x",
          FROM |-> f, TO |-> t, DO |-> d] @@ ("BY" :> by) :
          f \in NumSlots \cup {Child(<<"x", " + ", "1">>, ORDER_ADDITIVE)},
          t \in NumSlots \cup {Child(<<"x", " + ", "1">>, ORDER_ADDITIVE)},
          by \in {Unfilled, Child(<<"x", " + ", "1">>, ORDER_ADDITIVE)}
                   \cup {NumChild(n) : n \in NumRange},
          d \in Branches}
  \cup {[type |-> "controls_forEach", slots |-> {"LIST"}, VAR |-> "x",
          LIST |-> l, DO |-> d] : l \in ValSlots, d \in Branches}
  \cup {[type |-> "controls_flow_statements", slots |-> {}, FLOW |-> f] :
          f \in Enum({"BREAK", "CONTINUE"})}

Blocks_logic ==
  {[type |-> "controls_if", slots |-> {}, seq |-> "IF", DO |-> d,
    hasElse |-> e] @@ ("IF" :> c) @@ ("ELSE" :> Head(d)) :
     c \in {<<x>> : x \in ValSlots}, d \in {<<x>> : x \in Branches},
     e \in BOOLEAN}
  \cup {[type |-> "controls_if", slots |-> {}, seq |-> "IF", DO |-> <<d, d>>,
          hasElse |-> FALSE] @@ ("IF" :> <<x, y>>) @@ ("ELSE" :> <<>>) :
          x \in FewSlots, y \in FewSlots, d \in Branches}
  \cup {[type |-> "logic_compare", slots |-> {"A", "B"}, OP |-> op, A |-> a,
          B |-> b] :
          op \in Enum({"EQ", "NEQ", "LT", "LTE", "GT", "GTE"}),
          a \in ValSlots, b \in ValSlots}
  \cup {[type |-> "logic_operation", slots |-> {"A", "B"}, OP |-> op, A |-> a,
          B |-> b] :
          op \in Enum({"AND", "OR"}), a \in ValSlots, b \in ValSlots}
  \cup {[type |-> "logic_negate", slots |-> {"BOOL"}, BOOL |-> a] :
          a \in ValSlots}
  \cup {[type |-> "logic_boolean", slots |-> {}, BOOL |-> v] :
          v \in Enum({"TRUE", "FALSE"})}
  \cup {[type |-> "logic_null", slots |-> {}]}
  \cup {[type |-> "logic_ternary", slots |-> {"IF", "THEN", "ELSE"}]
            @@ ("IF" :> c) @@ ("THEN" :> a) @@ ("ELSE" :> b) :
          c \in ValSlots, a \in ValSlots, b \in FewSlots}

\* The two files that define module Blockly.Matlab.math.
Revs == {"math.js", "part_000"}

Blocks_math ==
  {[type |-> "math_number", slots |-> {}, NUM |-> n] :
     n \in {ToString(k) : k \in NumRange} \cup {"Infinity", "-Infinity"}}
  \cup {[type |-> "math_arithmetic", slots |-> {"A", "B"}, OP |-> op, A |-> a,
          B |-> b] :
          op \in Enum({"ADD", "MINUS", "MULTIPLY", "DIVIDE", "POWER"}),
          a \in ValSlots, b \in ValSlots}
  \cup {[type |-> "math_single", rev |-> r, slots |-> {"NUM"}, OP |-> op,
          NUM |-> a] :
          r \in Revs,
          op \in Enum({"NEG", "ABS", "ROOT", "LN", "LOG10", "EXP", "POW10",
                       "ROUND", "ROUNDUP", "ROUNDDOWN", "SIN", "COS", "TAN",
                       "ASIN", "ACOS", "ATAN"}),
          a \in ValSlots}
  \cup {[type |-> "math_constant", slots |-> {}] @@ ("CONSTANT" :> c) :
          c \in Enum({"PI", "E", "GOLDEN_RATIO", "SQRT2", "SQRT1_2",
                      "INFINITY"})}
  \cup {[type |-> "math_number_property", rev |-> r,
          slots |-> IF p = "DIVISIBLE_BY" THEN {"NUMBER_TO_CHECK", "DIVISOR"}
                    ELSE {"NUMBER_TO_CHECK"},
          PROPERTY |-> p, NUMBER_TO_CHECK |-> n, DIVISOR |-> d] :
          r \in Revs,
          p \in Enum({"EVEN", "ODD", "PRIME", "WHOLE", "POSITIVE", "NEGATIVE",
                      "DIVISIBLE_BY"}),
          n \in ValSlots, d \in NumSlots}
  \cup {[type |-> "math_change", slots |-> {"DELTA"}, VAR |-> "x",
          DELTA |-> d] : d \in ValSlots}
  \cup {[type |-> "math_on_list", rev |-> r, slots |-> {"LIST"}, OP |-> op,
          LIST |-> l] :
          r \in Revs,
          op \in Enum({"SUM", "MIN", "MAX", "AVERAGE", "MEDIAN", "MODE",
                       "STD_DEV", "RANDOM"}),
          l \in ValSlots}
  \cup {[type |-> "math_modulo", slots |-> {"DIVIDEND", "DIVISOR"},
          DIVIDEND |-> a, DIVISOR |-> d] : a \in ValSlots, d \in NumSlots}
  \cup {[type |-> "math_constrain", slots |-> {"VALUE", "LOW", "HIGH"},
          VALUE |-> v, LOW |-> l, HIGH |-> h] :
          v \in ValSlots, l \in FewSlots, h \in FewSlots}
  \cup {[type |-> "math_random_int", slots |-> {"FROM", "TO"}, FROM |-> f,
          TO |-> t] : f \in ValSlots, t \in ValSlots}
  \cup {[type |-> "math_random_float", slots |-> {}]}
  \cup {[type |-> "math_atan2", slots |-> {"X", "Y"}, X |-> x, Y |-> y] :
          x \in ValSlots, y \in ValSlots}

Blocks_variables ==
  {[type |-> "variables_get", slots |-> {}, VAR |-> "x"]}
  \cup {[type |-> "variables_set", slots |-> {"VALUE"}, VAR |-> "x",
          VALUE |-> v] : v \in ValSlots}

Blocks_text ==
  {[type |-> "text_join", slots |-> {}, seq |-> "ADD", ADD |-> a] :
     a \in {<<>>} \cup {<<x>> : x \in StrSlots}
            \cup {<<x, y>> : x \in StrSlots, y \in FewSlots}
            \cup {<<x, y, Unfilled>> : x \in FewSlots, y \in FewSlots}}
  \cup {[type |-> "text_append", slots |-> {"TEXT"}, VAR |-> "x", TEXT |-> t] :
          t \in StrSlots}
  \cup {[type |-> t, slots |-> {"VALUE"}, VALUE |-> v] :
          t \in {"text_length", "text_isEmpty"}, v \in StrSlots}
  \cup {[type |-> "text_indexOf", slots |-> {"FIND", "VALUE"}, END |-> e,
          FIND |-> f, VALUE |-> v] :
          e \in Enum({"FIRST", "LAST"}), f \in StrSlots, v \in StrSlots}
  \cup {[type |-> "text_charAt", slots |-> {"VALUE", "AT"}, WHERE |-> wh,
          VALUE |-> v, AT |-> a] :
          wh \in Enum({"FIRST", "LAST", "FROM_START", "FROM_END", "RANDOM"}),
          v \in StrSlots, a \in NumSlots}
  \cup {[type |-> "text_getSubstring", slots |-> {"STRING", "AT1", "AT2"},
          WHERE1 |-> w1, WHERE2 |-> w2, STRING |-> v, AT1 |-> a1, AT2 |-> a2] :
          w1 \in Enum({"FROM_START", "FROM_END", "FIRST"}),
          w2 \in Enum({"FROM_START", "FROM_END", "LAST"}),
          v \in FewSlots, a1 \in NumSlots, a2 \in IdxSlots}
  \cup {[type |-> "text_changeCase", slots |-> {"TEXT"}, TEXT |-> t]
            @@ ("CASE" :> c) :
          c \in Enum({"UPPERCASE", "LOWERCASE", "TITLECASE"}), t \in StrSlots}
  \cup {[type |-> "text_trim", slots |-> {"TEXT"}, MODE |-> m, TEXT |-> t] :
          m \in Enum({"LEFT", "RIGHT", "BOTH"}), t \in StrSlots}
  \cup {[type |-> "text_print", slots |-> {"TEXT"}, TEXT |-> t] :
          t \in StrSlots}
  \cup {[type |-> "text_prompt_ext", slots |-> {"TEXT"}, TYPE |-> ty,
          TEXT |-> t] : ty \in Enum({"TEXT", "NUMBER"}), t \in StrSlots}
  \cup {[type |-> "text_count", slots |-> {"TEXT", "SUB"}, TEXT |-> t,
          SUB |-> u] : t \in StrSlots, u \in StrSlots}
  \cup {[type |-> "text_replace", slots |-> {"TEXT", "FROM", "TO"},
          TEXT |-> t, FROM |-> f, TO |-> u] :
          t \in StrSlots, f \in FewSlots, u \in FewSlots}
  \cup {[type |-> "text_reverse", slots |-> {"TEXT"}, TEXT |-> t] :
          t \in StrSlots}

\* RETURN is no operand: without a return value there is no return line.
Blocks_procedures ==
  {[type |-> "procedures_defreturn", slots |-> {}, NAME |-> "foo",
    params |-> ps, STACK |-> st, RETURN |-> rv] :
     ps \in {<<>>, <<"x">>, <<"foo">>}, st \in Branches, rv \in ValSlots}
  \cup {[type |-> t, slots |-> {}, seq |-> "ARG", NAME |-> "foo", ARG |-> a] :
          t \in {"procedures_callreturn", "procedures_callnoreturn"},
          a \in {<<>>} \cup {<<x>> : x \in ValSlots}
                 \cup {<<x, y>> : x \in FewSlots, y \in FewSlots}}
  \cup {[type |-> "procedures_ifreturn",
          slots |-> IF h THEN {"CONDITION", "VALUE"} ELSE {"CONDITION"},
          hasReturnValue_ |-> h, CONDITION |-> c, VALUE |-> v] :
          h \in BOOLEAN, c \in ValSlots, v \in ValSlots}

(***************************************************************************)
(* generators/matlab/colour.js: the file holds the module twice, first     *)
(* with the emitters rewritten for Matlab, then with those of the Python   *)
(* generator                                                               *)
(***************************************************************************)
ColourRevs == {"first", "second"}

\* Matlab.quote_(string) on a string given by its characters.
quote_(string) ==
  LET Esc(c) == CASE c = "\\" -> <<"\\", "\\">>
                  [] c = "\n" -> <<"\\", "\n">>
                  [] OTHER -> <<c>>
      F[i \in 0..Len(string)] ==
        IF i = 0 THEN <<>> ELSE F[i - 1] \o Esc(string[i])
      escaped == F[Len(string)]
      single == \E i \in 1..Len(escaped) : escaped[i] = "'"
      double == \E i \in 1..Len(escaped) : escaped[i] = "\""
      quote == IF single /\ ~double THEN "\"" ELSE "'"
      H[i \in 0..Len(escaped)] ==
        IF i = 0 THEN <<>>
        ELSE H[i - 1] \o (IF escaped[i] = "'" /\ single /\ double
                          THEN <<"\\", "'">> ELSE <<escaped[i]>>)
  IN <<quote>> \o H[Len(escaped)] \o <<quote>>

\* parseInt(text, 16) of two hexadecimal digits.
ParseHex(text) ==
  LET digits == <<"0", "1", "2", "3", "4", "5", "6", "7", "8", "9", "a", "b",
                  "c", "d", "e", "f">>
      Digit(c) == (CHOOSE i \in 1..16 : digits[i] = c) - 1
  IN 16 * Digit(text[1]) + Digit(text[2])

\* Matlab['colour_picker'], first definition.
colour_picker(g, w, b) ==
  LET colour == quote_(b.COLOUR)
  IN Expr(g, <<"[", ToString(ParseHex(SubSeq(colour, 3, 4))), ", ",
               ToString(ParseHex(SubSeq(colour, 5, 6))), ", ",
               ToString(ParseHex(SubSeq(colour, 7, 8))), "] / 255">>,
          ORDER_ATOMIC)

\* Matlab['colour_random'], first definition.
colour_random(g, w, b) == Expr(g, <<"rand(1,3)">>, ORDER_FUNCTION_CALL)

\* Matlab['colour_rgb'], first definition.
colour_rgb(g, w, b) ==
  LET red == Or(valueToCode(b.RED, ORDER_NONE), <<"0">>)
      green == Or(valueToCode(b.GREEN, ORDER_NONE), <<"0">>)
      blue == Or(valueToCode(b.BLUE, ORDER_NONE), <<"0">>)
  IN Expr(g, <<"max(0, min(100, [">> \o red \o <<", ">> \o green \o <<", ">>
               \o blue \o <<"])) / 100">>,
          ORDER_FUNCTION_CALL)

\* Matlab['colour_blend'], first definition.
colour_blend(g, w, b) ==
  LET f == provideFunction_(g, "colour_blend",
             << "function blended = ", FUNCTION_NAME_PLACEHOLDER_,
                "(colour1, colour2, ratio)", NL,
                "  ratio = min(1, max(0, ratio));", NL,
                "  blended = colour1 * (1 - ratio) + colour2 * ratio;", NL,
                "end;" >>)
      colour1 == Or(valueToCode(b.COLOUR1, ORDER_NONE), <<"[0, 0, 0]">>)
      colour2 == Or(valueToCode(b.COLOUR2, ORDER_NONE), <<"[0, 0, 0]">>)
      ratio == Or(valueToCode(b.RATIO, ORDER_NONE), <<"0">>)
  IN Expr(f.g, <<f.name, "(">> \o colour1 \o <<", ">> \o colour2 \o <<", ">>
                 \o ratio \o <<")">>,
          ORDER_FUNCTION_CALL)

\* Matlab['colour_picker'], second definition.
colour_picker_0(g, w, b) == Expr(g, quote_(b.COLOUR), ORDER_ATOMIC)

\* Matlab['colour_random'], second definition.
colour_random_0(g, w, b) ==
  Expr(WithDef(g, "import_random", <<"import", " ", "random">>),
       <<"'#%06x' % random.randint(0, 2**24 - 1)">>, ORDER_FUNCTION_CALL)

\* Matlab['colour_rgb'], second definition.
colour_rgb_0(g, w, b) ==
  LET f == provideFunction_(g, "colour_rgb",
             << "def ", FUNCTION_NAME_PLACEHOLDER_, "(r, g, b):", NL,
                "  r = round(min(100, max(0, r)) * 2.55)", NL,
                "  g = round(min(100, max(0, g)) * 2.55)", NL,
                "  b = round(min(100, max(0, b)) * 2.55)", NL,
                "  return '#%02x%02x%02x' % (r, g, b)" >>)
      red == Or(valueToCode(b.RED, ORDER_NONE), <<"0">>)
      green == Or(valueToCode(b.GREEN, ORDER_NONE), <<"0">>)
      blue == Or(valueToCode(b.BLUE, ORDER_NONE), <<"0">>)
  IN Expr(f.g, <<f.name, "(">> \o red \o <<", ">> \o green \o <<", ">>
                 \o blue \o <<")">>,
          ORDER_FUNCTION_CALL)

\* Matlab['colour_blend'], second definition.
colour_blend_0(g, w, b) ==
  LET f == provideFunction_(g, "colour_blend",
             << "def ", FUNCTION_NAME_PLACEHOLDER_,
                "(colour1, colour2, ratio):", NL,
                "  r1, r2 = int(colour1[1:3], 16), int(colour2[1:3], 16)", NL,
                "  g1, g2 = int(colour1[3:5], 16), int(colour2[3:5], 16)", NL,
                "  b1, b2 = int(colour1[5:7], 16), int(colour2[5:7], 16)", NL,
                "  ratio = min(1, max(0, ratio))", NL,
                "  r = round(r1 * (1 - ratio) + r2 * ratio)", NL,
                "  g = round(g1 * (1 - ratio) + g2 * ratio)", NL,
                "  b = round(b1 * (1 - ratio) + b2 * ratio)", NL,
                "  return '#%02x%02x%02x' % (r, g, b)" >>)
      colour1 == Or(valueToCode(b.COLOUR1, ORDER_NONE), <<"'#000000'">>)
      colour2 == Or(valueToCode(b.COLOUR2, ORDER_NONE), <<"'#000000'">>)
      ratio == Or(valueToCode(b.RATIO, ORDER_NONE), <<"0">>)
  IN Expr(f.g, <<f.name, "(">> \o colour1 \o <<", ">> \o colour2 \o <<", ">>
                 \o ratio \o <<")">>,
          ORDER_FUNCTION_CALL)

\* The colours of a colour field, by their characters.
Colours ==
  {<<"#", "f", "f", "0", "0", "0", "0">>, <<"#", "3", "3", "c", "c", "9", "9">>}

Blocks_colour ==
  {[type |-> "colour_picker", rev |-> r, slots |-> {}, COLOUR |-> c] :
     r \in ColourRevs, c \in Colours}
  \cup {[type |-> "colour_random", rev |-> r, slots |-> {}] : r \in ColourRevs}
  \cup {[type |-> "colour_rgb", rev |-> r, slots |-> {"RED", "GREEN", "BLUE"},
          RED |-> x, GREEN |-> y, BLUE |-> z] :
          r \in ColourRevs, x \in ValSlots, y \in FewSlots, z \in FewSlots}
  \cup {[type |-> "colour_blend", rev |-> r,
          slots |-> {"COLOUR1", "COLOUR2", "RATIO"},
          COLOUR1 |-> x, COLOUR2 |-> y, RATIO |-> z] :
          r \in ColourRevs, x \in FewSlots, y \in FewSlots, z \in FewSlots}

\* The emitters that generators/matlab/colour.js registers, by block type
\* and by the definition taken.
Matlab_colour(g, w, b) ==
  CASE b.type = "colour_picker" ->
         IF b.rev = "first" THEN colour_picker(g, w, b)
         ELSE colour_picker_0(g, w, b)
    [] b.type = "colour_random" ->
         IF b.rev = "first" THEN colour_random(g, w, b)
         ELSE colour_random_0(g, w, b)
    [] b.type = "colour_rgb" ->
         IF b.rev = "first" THEN colour_rgb(g, w, b) ELSE colour_rgb_0(g, w, b)
    [] b.type = "colour_blend" ->
         IF b.rev = "first" THEN colour_blend(g, w, b)
         ELSE colour_blend_0(g, w, b)
    [] OTHER -> Throw(g, "no generator for block type " \o b.type)

Blocks ==
  Blocks_lists \cup Blocks_loops \cup Blocks_logic \cup Blocks_math
    \cup Blocks_variables \cup Blocks_text \cup Blocks_procedures
    \cup Blocks_colour

\* The emitters that generators/matlab/lists.js registers, by block type.
Matlab_lists(g, w, b) ==
  CASE b.type = "lists_create_empty" -> lists_create_empty(g, w, b)
    [] b.type = "lists_create_with" -> lists_create_with(g, w, b)
    [] b.type = "lists_repeat" -> lists_repeat(g, w, b)
    [] b.type = "lists_length" -> lists_length(g, w, b)
    [] b.type = "lists_isEmpty" -> lists_isEmpty(g, w, b)
    [] b.type = "lists_indexOf" -> lists_indexOf(g, w, b)
    [] b.type = "lists_getIndex" -> lists_getIndex(g, w, b)
    [] b.type = "lists_setIndex" -> lists_setIndex(g, w, b)
    [] b.type = "lists_getSublist" -> lists_getSublist(g, w, b)
    [] b.type = "lists_sort" -> lists_sort(g, w, b)
    [] b.type = "lists_split" -> lists_split(g, w, b)
    [] b.type = "lists_reverse" -> lists_reverse(g, w, b)
    [] OTHER -> Throw(g, "no generator for block type " \o b.type)

\* The emitters that generators/matlab/loops.js registers, by block type.
Matlab_loops(g, w, b) ==
  CASE b.type \in {"controls_repeat", "controls_repeat_ext"} ->
         controls_repeat_ext(g, w, b)
    [] b.type = "controls_whileUntil" -> controls_whileUntil(g, w, b)
    [] b.type = "controls_for" -> controls_for(g, w, b)
    [] b.type = "controls_forEach" -> controls_forEach(g, w, b)
    [] b.type = "controls_flow_statements" -> controls_flow_statements(g, w, b)
    [] OTHER -> Throw(g, "no generator for block type " \o b.type)

\* The emitters that generators/matlab.js registers, by block type.
Matlab_logic(g, w, b) ==
  CASE b.type = "controls_if" -> controls_if(g, w, b)
    [] b.type = "logic_compare" -> logic_compare(g, w, b)
    [] b.type = "logic_operation" -> logic_operation(g, w, b)
    [] b.type = "logic_negate" -> logic_negate(g, w, b)
    [] b.type = "logic_boolean" -> logic_boolean(g, w, b)
    [] b.type = "logic_null" -> logic_null(g, w, b)
    [] b.type = "logic_ternary" -> logic_ternary(g, w, b)
    [] OTHER -> Throw(g, "no generator for block type " \o b.type)

\* The emitters that generators/matlab/math.js registers, by block type.
Matlab_math(g, w, b) ==
  CASE b.type = "math_number" -> math_number(g, w, b)
    [] b.type = "math_arithmetic" -> math_arithmetic(g, w, b)
    [] b.type = "math_single" -> math_single(g, w, b)
    [] b.type = "math_constant" -> math_constant(g, w, b)
    [] b.type = "math_number_property" -> math_number_property(g, w, b)
    [] b.type = "math_change" -> math_change(g, w, b)
    [] b.type = "math_on_list" -> math_on_list(g, w, b)
    [] b.type = "math_modulo" -> math_modulo(g, w, b)
    [] b.type = "math_constrain" -> math_constrain(g, w, b)
    [] b.type = "math_random_int" -> math_random_int(g, w, b)
    [] b.type = "math_random_float" -> math_random_float(g, w, b)
    [] b.type = "math_atan2" -> math_atan2(g, w, b)
    [] OTHER -> Throw(g, "no generator for block type " \o b.type)

\* The emitters that unnamed/part_000 registers, by block type.
Matlab_math_0(g, w, b) ==
  CASE b.type = "math_single" -> math_single_0(g, w, b)
    [] b.type = "math_number_property" -> math_number_property_0(g, w, b)
    [] b.type = "math_on_list" -> math_on_list_0(g, w, b)
    [] OTHER -> Throw(g, "no generator for block type " \o b.type)

\* The emitters that generators/matlab/variables.js registers, by block type.
Matlab_variables(g, w, b) ==
  CASE b.type = "variables_get" -> variables_get(g, w, b)
    [] b.type = "variables_set" -> variables_set(g, w, b)
    [] OTHER -> Throw(g, "no generator for block type " \o b.type)

\* The emitters that generators/matlab/text.js registers, by block type.
Matlab_texts(g, w, b) ==
  CASE b.type = "text_join" -> text_join(g, w, b)
    [] b.type = "text_append" -> text_append(g, w, b)
    [] b.type = "text_length" -> text_length(g, w, b)
    [] b.type = "text_isEmpty" -> text_isEmpty(g, w, b)
    [] b.type = "text_indexOf" -> text_indexOf(g, w, b)
    [] b.type = "text_charAt" -> text_charAt(g, w, b)
    [] b.type = "text_getSubstring" -> text_getSubstring(g, w, b)
    [] b.type = "text_changeCase" -> text_changeCase(g, w, b)
    [] b.type = "text_trim" -> text_trim(g, w, b)
    [] b.type = "text_print" -> text_print(g, w, b)
    [] b.type = "text_prompt_ext" -> text_prompt_ext(g, w, b)
    [] b.type = "text_count" -> text_count(g, w, b)
    [] b.type = "text_replace" -> text_replace(g, w, b)
    [] b.type = "text_reverse" -> text_reverse(g, w, b)
    [] OTHER -> Throw(g, "no generator for block type " \o b.type)

\* The emitters that generators/matlab/procedures.js registers, by block type.
Matlab_procedures(g, w, b) ==
  CASE b.type = "procedures_defreturn" -> procedures_defreturn(g, w, b)
    [] b.type = "procedures_callreturn" -> procedures_callreturn(g, w, b)
    [] b.type = "procedures_callnoreturn" -> procedures_callnoreturn(g, w, b)
    [] b.type = "procedures_ifreturn" -> procedures_ifreturn(g, w, b)
    [] OTHER -> Throw(g, "no generator for block type " \o b.type)

\* Generator.blockToCode: the emitter registered for the block's type.  Of
\* a type that two files register, the block's rev names the file.
blockToCode(g, w, b) ==
  CASE b.type \in
         {"lists_create_empty", "lists_create_with", "lists_repeat",
          "lists_length", "lists_isEmpty", "lists_indexOf", "lists_getIndex",
          "lists_setIndex", "lists_getSublist", "lists_sort", "lists_split",
          "lists_reverse"} -> Matlab_lists(g, w, b)
    [] b.type \in
         {"controls_repeat", "controls_repeat_ext", "controls_whileUntil",
          "controls_for", "controls_forEach", "controls_flow_statements"} ->
         Matlab_loops(g, w, b)
    [] b.type \in
         {"controls_if", "logic_compare", "logic_operation", "logic_negate",
          "logic_boolean", "logic_null", "logic_ternary"} ->
         Matlab_logic(g, w, b)
    [] b.type \in {"math_single", "math_number_property", "math_on_list"} ->
         IF b.rev = "part_000" THEN Matlab_math_0(g, w, b)
         ELSE Matlab_math(g, w, b)
    [] b.type \in
         {"math_number", "math_arithmetic", "math_constant", "math_change",
          "math_modulo", "math_constrain", "math_random_int",
          "math_random_float", "math_atan2"} -> Matlab_math(g, w, b)
    [] b.type \in {"variables_get", "variables_set"} ->
         Matlab_variables(g, w, b)
    [] b.type \in
         {"text_join", "text_append", "text_length", "text_isEmpty",
          "text_indexOf", "text_charAt", "text_getSubstring",
          "text_changeCase", "text_trim", "text_print", "text_prompt_ext",
          "text_count", "text_replace", "text_reverse"} ->
         Matlab_texts(g, w, b)
    [] b.type \in
         {"procedures_defreturn", "procedures_callreturn",
          "procedures_callnoreturn", "procedures_ifreturn"} ->
         Matlab_procedures(g, w, b)
    [] b.type \in
         {"colour_picker", "colour_random", "colour_rgb", "colour_blend"} ->
         Matlab_colour(g, w, b)
    [] OTHER -> Throw(g, "no generator for block type " \o b.type)

(***************************************************************************)
(* The run: workspaceToCode calls Matlab.init, renders the top blocks one  *)
(* after the other, and calls Matlab.finish on the joined lines; an        *)
(* emitter that throws ends the run where it stands.                       *)
(***************************************************************************)
Blank == GState(<<>>, {}, NoNames, <<>>)

NoBlock == [type |-> "none", slots |-> {}]

NoResult == [code |-> <<>>, order |-> ORDER_NONE, err |-> "", stmt |-> FALSE]

\* prev: how the run before this one ended, and the keys it registered.
NoRun == [end |-> "new", keys |-> {}]

Keys(calls) == {calls[i].key : i \in 1..Len(calls)}

\* The workspaces of the runs: without variables, and with some.
Workspaces ==
  {Workspace(<<>>, <<>>, TRUE), Workspace(<<"count", "x">>, <<"foo">>, FALSE)}

\* The top blocks a run renders.
TopBlocks ==
  {[type |-> "lists_getIndex", slots |-> {"VALUE", "AT"}, MODE |-> Bogus,
    WHERE |-> "FROM_START", VALUE |-> Unfilled, AT |-> Unfilled],
   [type |-> "controls_repeat_ext", slots |-> {"TIMES"},
    TIMES |-> Unfilled, DO |-> <<>>],
   [type |-> "math_number_property", rev |-> "part_000",
    slots |-> {"NUMBER_TO_CHECK"}, PROPERTY |-> "PRIME",
    NUMBER_TO_CHECK |-> Unfilled, DIVISOR |-> Unfilled],
   [type |-> "lists_setIndex", slots |-> {"LIST", "TO", "AT"},
    MODE |-> "SET", WHERE |-> "RANDOM",
    LIST |-> Child(<<"rand()">>, ORDER_FUNCTION_CALL), TO |-> Unfilled,
    AT |-> Unfilled],
   [type |-> "procedures_defreturn", slots |-> {}, NAME |-> "foo",
    params |-> <<>>, STACK |-> <<>>, RETURN |-> Unfilled],
   [type |-> "lists_create_with", slots |-> {}, seq |-> "ADD",
    ADD |-> <<>>]}

\* The state Matlab.finish leaves.
FinishState(g) == WithDB(GeneratorFinish(g), NamesReset(g.nameDB_))

Lines(entries) ==
  LET F[i \in 0..Len(entries)] ==
        IF i = 0 THEN <<>>
        ELSE IF entries[i].line = <<>> THEN F[i - 1]
             ELSE Append(F[i - 1], entries[i].line)
  IN F[Len(entries)]

\* Matlab.scrubNakedValue
scrubNakedValue(line) == line \o <<NL>>

Init ==
  /\ pc = "new"
  /\ definitions_ = <<>>
  /\ functionNames_ = {}
  /\ nameDB_ = NoNames
  /\ isInitialized = FALSE
  /\ ws = Workspace(<<>>, <<>>, TRUE)
  /\ codelist = <<>>
  /\ out = <<>>
  /\ log = <<>>
  /\ prev = NoRun
  /\ blk = NoBlock
  /\ res = NoResult

SetG(g) ==
  /\ definitions_' = g.definitions_
  /\ functionNames_' = g.functionNames_
  /\ nameDB_' = g.nameDB_
  /\ log' = g.calls

\* workspaceToCode up to and including Matlab.init(workspace).
MatlabInit ==
  /\ pc \in {"new", "finished", "aborted"}
  /\ \E w \in Workspaces :
       /\ ws' = w
       /\ SetG(InitState([G EXCEPT !.calls = <<>>], w))
  /\ prev' = [end |-> pc, keys |-> Keys(log)]
  /\ pc' = "walk"
  /\ isInitialized' = TRUE
  /\ codelist' = <<>>
  /\ out' = <<>>
  /\ blk' = NoBlock
  /\ res' = NoResult

\* What an emitter's result r leaves in res and in the generator.
Returned(r) ==
  /\ res' = [code |-> r.code, order |-> r.order, err |-> r.err,
             stmt |-> r.stmt]
  /\ SetG(r.g)

\* The line of a top block rendered to r.
TopLine(r) == IF r.stmt THEN r.code ELSE scrubNakedValue(r.code)

\* One top block rendered: its line joins the code, or its error ends the
\* run.
Walk ==
  /\ pc = "walk"
  /\ Len(codelist) < MaxWalk
  /\ \E b \in TopBlocks :
       /\ blk' = b
       /\ Returned(blockToCode(G, ws, b))
  /\ IF res'.err # ""
     THEN pc' = "aborted" /\ codelist' = codelist
     ELSE /\ pc' = "walk"
          /\ codelist' = Append(codelist, [b |-> blk', line |-> TopLine(res')])
  /\ UNCHANGED <<isInitialized, ws, out, prev>>

\* Matlab.finish on the joined lines; res keeps what finish was given, the
\* code and the fragments.
MatlabFinish ==
  /\ pc = "walk"
  /\ out' = FinishText(definitions_, Join(Lines(codelist), <<NL>>))
  /\ SetG(FinishState(G))
  /\ isInitialized' = FALSE
  /\ pc' = "finished"
  /\ res' = [code |-> Join(Lines(codelist), <<NL>>), order |-> ORDER_NONE,
             err |-> "", stmt |-> FALSE, defs |-> definitions_]
  /\ UNCHANGED <<ws, codelist, prev, blk>>

Next == MatlabInit \/ Walk \/ MatlabFinish

Spec == Init /\ [][Next]_vars

(***************************************************************************)
(* One emitter applied to one block, in the state Matlab.init leaves.      *)
(***************************************************************************)
EmitWorkspaces ==
  {Workspace(<<"x">>, <<"foo">>, one) : one \in BOOLEAN}

InitEmit ==
  /\ pc = "emit"
  /\ ws \in EmitWorkspaces
  /\ definitions_ = InitState(Blank, ws).definitions_
  /\ functionNames_ = {}
  /\ nameDB_ = InitState(Blank, ws).nameDB_
  /\ isInitialized = TRUE
  /\ codelist = <<>>
  /\ out = <<>>
  /\ log = <<>>
  /\ prev = NoRun
  /\ blk \in Blocks
  /\ res = NoResult

\* The frame of the steps that apply an emitter.
Emitted ==
  /\ pc' = "emitted"
  /\ UNCHANGED <<isInitialized, ws, codelist, out, prev, blk>>

\* The emitter for a block of generators/matlab/lists.js, applied.
Emit_lists ==
  /\ pc = "emit"
  /\ blk \in Blocks_lists
  /\ Returned(Matlab_lists(G, ws, blk))
  /\ Emitted

\* ... on a block of generators/matlab/loops.js.
Emit_loops ==
  /\ pc = "emit"
  /\ blk \in Blocks_loops
  /\ Returned(Matlab_loops(G, ws, blk))
  /\ Emitted

\* ... on a logic block of generators/matlab.js.
Emit_logic ==
  /\ pc = "emit"
  /\ blk \in Blocks_logic
  /\ Returned(Matlab_logic(G, ws, blk))
  /\ Emitted

\* ... on a block of generators/matlab/math.js.
Emit_math ==
  /\ pc = "emit"
  /\ blk \in Blocks_math
  /\ ("rev" \in DOMAIN blk => blk.rev = "math.js")
  /\ Returned(Matlab_math(G, ws, blk))
  /\ Emitted

\* ... on a block that unnamed/part_000 defines otherwise than math.js.
Emit_math_0 ==
  /\ pc = "emit"
  /\ blk \in Blocks_math
  /\ "rev" \in DOMAIN blk
  /\ blk.rev = "part_000"
  /\ Returned(Matlab_math_0(G, ws, blk))
  /\ Emitted

\* ... on a block of generators/matlab/variables.js.
Emit_variables ==
  /\ pc = "emit"
  /\ blk \in Blocks_variables
  /\ Returned(Matlab_variables(G, ws, blk))
  /\ Emitted

\* ... on a block of generators/matlab/text.js.
Emit_text ==
  /\ pc = "emit"
  /\ blk \in Blocks_text
  /\ Returned(Matlab_texts(G, ws, blk))
  /\ Emitted

\* ... on a block of generators/matlab/procedures.js.
Emit_procedures ==
  /\ pc = "emit"
  /\ blk \in Blocks_procedures
  /\ Returned(Matlab_procedures(G, ws, blk))
  /\ Emitted

\* ... on a block of generators/matlab/colour.js.
Emit_colour ==
  /\ pc = "emit"
  /\ blk \in Blocks_colour
  /\ Returned(Matlab_colour(G, ws, blk))
  /\ Emitted

NextEmit ==
  \/ Emit_lists
  \/ Emit_loops
  \/ Emit_logic
  \/ Emit_math
  \/ Emit_math_0
  \/ Emit_variables
  \/ Emit_text
  \/ Emit_procedures
  \/ Emit_colour

SpecEmit == InitEmit /\ [][NextEmit]_vars

(***************************************************************************)
(* Reading the output of finish                                            *)
(***************************************************************************)
\* The tokens that open a function definition; the name follows.
Heads ==
  {"function out = ", "function index = ", "function v = ",
   "function sorted = ", "function ret = ", "function outtext = ", "def "}

\* Where text defines a function called name.
DefinedAt(text, name) ==
  {i \in 1..(Len(text) - 1) : text[i] \in Heads /\ text[i + 1] = name}

\* The helper requests of the run, in the order of first occurrence.
Requests == SelectSeq(log, LAMBDA e : e.name # "")

\* Where the body code starts in the output of finish.
BodyStart == Len(out) - Len(res.code) + 1

\* The run rendered the same top block at places i and j of the code.
Repeated(i, j) ==
  /\ i < j
  /\ j <= Len(codelist)
  /\ codelist[i].b = codelist[j].b

(***************************************************************************)
(* C1: within one run, every request of a helper key is answered with the  *)
(* same name, and the output of finish holds exactly one definition of the *)
(* helper.                                                                 *)
(***************************************************************************)
C1_HelperIdempotent ==
  /\ \A i, j \in 1..Len(Requests) :
       Requests[i].key = Requests[j].key => Requests[i].name = Requests[j].name
  /\ pc = "finished" =>
       \A i \in 1..Len(Requests) :
         Cardinality(DefinedAt(out, Requests[i].name)) = 1

\* A finished run that rendered the same helper-requesting block twice.
C1_Witness ==
  /\ pc = "finished"
  /\ \E i, j \in 1..Len(codelist) :
       /\ Repeated(i, j)
       /\ codelist[i].b.type = "lists_create_with"
  /\ \E i \in 1..Len(Requests) : Requests[i].key = "flattentocelllist"

(***************************************************************************)
(* C2: in the output of finish every helper definition stands before the   *)
(* body code, and the helper definitions stand in the order in which their *)
(* keys were first requested; a repeated request moves nothing.            *)
(***************************************************************************)
C2_HelpersBeforeBodyInOrder ==
  pc = "finished" =>
    /\ \A i \in 1..Len(Requests) :
         /\ DefinedAt(out, Requests[i].name) # {}
         /\ \A p \in DefinedAt(out, Requests[i].name) : p < BodyStart
    /\ \A i, j \in 1..Len(Requests) :
         i < j =>
           \A p \in DefinedAt(out, Requests[i].name),
              q \in DefinedAt(out, Requests[j].name) : p < q

\* A finished run with two helpers, the first of them requested again after
\* the second.
C2_Witness ==
  /\ pc = "finished"
  /\ Len(Requests) = 2
  /\ Len(codelist) = 3
  /\ Repeated(1, 3)
  /\ codelist[1].b.type = "lists_create_with"
  /\ Requests[1].key = "flattentocelllist"
  /\ Requests[2].key = "math_isPrime"

(***************************************************************************)
(* What a run owns                                                         *)
(***************************************************************************)
Range(seq) == {seq[i] : i \in 1..Len(seq)}

\* This run registered a helper or a procedure that is called name.
OwnFunction(name) ==
  \E i \in 1..Len(log) : log[i].name = name \/ log[i].key = "%" \o name

\* Every function definition, import and variable declaration in the text
\* before the body code is one that this run registered.
OnlyOwn ==
  \A i \in 1..(BodyStart - 1) :
    /\ out[i] \in Heads => OwnFunction(out[i + 1])
    /\ (out[i] = "import" /\ (i = 1 \/ out[i - 1] = NL)) =>
         ("import_" \o out[i + 2]) \in Keys(log)
    /\ out[i] = "from" =>
         ("from_" \o out[i + 2] \o "_import_" \o out[i + 6]) \in Keys(log)
    /\ out[i] = " = None" => out[i - 1] \in Range(ws.vars)

\* The top blocks of the run that are of the type.
OfType(type) == {i \in 1..Len(codelist) : codelist[i].b.type = type}

\* The loop variable of the first repeat loop of the run is count, or count2
\* when the workspace has a variable count.
FirstCountIsFresh ==
  \A i \in OfType("controls_repeat_ext") :
    (\A j \in OfType("controls_repeat_ext") : i <= j) =>
      codelist[i].line[2] =
        (IF "count" \in Range(ws.vars) THEN "count2" ELSE "count")

(***************************************************************************)
(* C3: when a run that finished is followed by another run, the output of  *)
(* the second run holds no helper definition, import, variable declaration *)
(* or procedure definition that the second run did not register, and the   *)
(* second run's helpers and loop variables get the names they would get in *)
(* a first run.                                                            *)
(***************************************************************************)
C3_NoLeakAfterFinish ==
  (pc = "finished" /\ prev.end = "finished") =>
    /\ OnlyOwn
    /\ \A i \in 1..Len(Requests) : Requests[i].name = Requests[i].key
    /\ FirstCountIsFresh

\* A second finished run that requested a helper and a loop variable, after
\* a finished run that registered a helper, imports and the same names.
C3_Witness ==
  /\ pc = "finished"
  /\ prev.end = "finished"
  /\ {"import_math", "math_isPrime", "flattentocelllist"} \subseteq prev.keys
  /\ Keys(log) = {"variables", "flattentocelllist"}
  /\ OfType("controls_repeat_ext") # {}

(***************************************************************************)
(* C4: when a walk aborted after it registered helpers, imports or         *)
(* procedure definitions, the next init leaves only the variable           *)
(* declarations and the names of the new workspace, and the output of the  *)
(* next run holds only what that run registered.                           *)
(***************************************************************************)
C4_NoLeakAfterAbort ==
  prev.end = "aborted" =>
    /\ (pc = "walk" /\ blk = NoBlock) =>
         /\ Len(definitions_) = 1
         /\ definitions_[1].key = "variables"
         /\ functionNames_ = {}
         /\ nameDB_.dbReverse = Range(ws.vars) \cup Range(ws.procs)
    /\ pc \in {"walk", "aborted"} =>
         \A i \in 1..Len(definitions_) : definitions_[i].key \in Keys(log)
    /\ pc = "finished" => OnlyOwn

\* A finished run after a walk that aborted with a helper, imports and a
\* procedure definition registered.
C4_Witness ==
  /\ pc = "finished"
  /\ prev.end = "aborted"
  /\ {"getRemoveAt", "import_math", "%foo"} \subseteq prev.keys
  /\ Keys(log) = {"variables", "flattentocelllist"}

(***************************************************************************)
(* C5: the output of a finished run is the output that the same top blocks *)
(* and workspace give from a generator that has run nothing before, the    *)
(* temporary names included.                                               *)
(***************************************************************************)
\* init, the walk over blocks, finish, from a generator that is new.
FreshRun(w, blocks) ==
  LET F[i \in 0..Len(blocks)] ==
        IF i = 0 THEN [g |-> InitState(Blank, w), lines |-> <<>>]
        ELSE LET r == blockToCode(F[i - 1].g, w, blocks[i])
             IN [g |-> r.g,
                 lines |-> IF TopLine(r) = <<>> THEN F[i - 1].lines
                           ELSE Append(F[i - 1].lines, TopLine(r))]
  IN FinishText(F[Len(blocks)].g.definitions_,
                Join(F[Len(blocks)].lines, <<NL>>))

C5_OutputDependsOnTreeOnly ==
  pc = "finished" =>
    out = FreshRun(ws, [i \in 1..Len(codelist) |-> codelist[i].b])

\* A finished run with a loop variable and list temporaries, after a walk
\* that aborted.
C5_Witness ==
  /\ pc = "finished"
  /\ prev.end = "aborted"
  /\ OfType("controls_repeat_ext") # {}
  /\ OfType("lists_setIndex") # {}

(***************************************************************************)
(* The fragments finish was given, and where they stand in its output      *)
(***************************************************************************)
\* The fragments of definitions_ that have text, in insertion order.
Fragments == SelectSeq(res.defs, LAMBDA d : d.def # <<>>)

\* A fragment that starts like 'import X' or 'from X import Y'.
ImportLike(f) == f[1] \in {"import", "from"}

\* The text f stands at place p of the output.
StandsAt(f, p) ==
  /\ p + Len(f) - 1 <= Len(out)
  /\ out[p] = f[1]
  /\ SubSeq(out, p, p + Len(f) - 1) = f

\* The places of the output where the text f stands.
PlacesOf(f) == {p \in 1..Len(out) : StandsAt(f, p)}

\* The first of them, 0 when there is none.
PlaceOf(f) ==
  LET places == PlacesOf(f)
  IN IF places = {} THEN 0
     ELSE CHOOSE p \in places : \A q \in places : p <= q

\* Where each of the fragments stands first.
Starts(fragments) ==
  LET F[i \in 0..Len(fragments)] ==
        IF i = 0 THEN <<>>
        ELSE Append(F[i - 1], PlaceOf(fragments[i].def))
  IN F[Len(fragments)]

(***************************************************************************)
(* C6: in the output of finish every import-like fragment stands before    *)
(* every other fragment, every fragment stands before the body code, and   *)
(* the fragments of each of the two groups stand in the order in which     *)
(* they were added.                                                        *)
(***************************************************************************)
C6_ImportsThenDefinitionsThenBody ==
  pc = "finished" =>
    LET fragments == Fragments
        from == Starts(fragments)
        To(i) == from[i] + Len(fragments[i].def)
    IN /\ \A i \in 1..Len(fragments) : from[i] >= 1 /\ To(i) <= BodyStart
       /\ \A i, j \in 1..Len(fragments) :
            LET a == fragments[i].def
                b == fragments[j].def
            IN /\ (ImportLike(a) /\ ~ImportLike(b)) => To(i) <= from[j]
               /\ (i < j /\ ImportLike(a) = ImportLike(b)) => To(i) <= from[j]

\* A finished run with variable declarations, a procedure definition, two
\* imports and a helper, the imports added after other fragments.
C6_Witness ==
  /\ pc = "finished"
  /\ Len(Fragments) = 5
  /\ ~ImportLike(Fragments[1].def)
  /\ Fragments[2].key = "%foo"
  /\ ImportLike(Fragments[3].def)
  /\ ImportLike(Fragments[4].def)
  /\ res.code # <<>>

(***************************************************************************)
(* The newlines of the preamble                                            *)
(***************************************************************************)
\* The preamble of the output of finish, and the text it was made from.
PreambleOut == SubSeq(out, 1, BodyStart - 1)

PreambleRaw == AllDefs(res.defs)

\* The places of the tokens of t that are no newlines, in order.
TextPlaces(t) ==
  SelectSeq([i \in 1..Len(t) |-> i], LAMBDA i : t[i] # NL)

\* The runs of newlines of t: the number of newlines before the k-th token
\* that is no newline and, last, the number of newlines at the end of t.
NewlineRuns(t) ==
  LET at == TextPlaces(t) \o <<Len(t) + 1>>
  IN [k \in 1..Len(at) |-> at[k] - (IF k = 1 THEN 0 ELSE at[k - 1]) - 1]

\* The text of t without its newlines.
TextOf(t) == SelectSeq(t, LAMBDA x : x # NL)

Min(a, b) == IF a <= b THEN a ELSE b

\* C7 as stated: a run of four or more newlines (three or more blank lines)
\* becomes three newlines (two blank lines), shorter runs stay as they are,
\* and the preamble ends with two blank lines.
C7_AsStated ==
  pc = "finished" =>
    LET was == NewlineRuns(PreambleRaw)
        is == NewlineRuns(PreambleOut)
    IN /\ TextOf(PreambleOut) = TextOf(PreambleRaw)
       /\ \A k \in 1..(Len(was) - 1) : is[k] = Min(was[k], 3)
       /\ is[Len(is)] = 3

(***************************************************************************)
(* C7 (amended): in the preamble that finish builds, every run of two or   *)
(* more newlines, that is of one or more blank lines, is collapsed to      *)
(* exactly two newlines (one blank line), single newlines and all other    *)
(* text stay as they are, and the preamble ends with exactly three         *)
(* newlines, for every set of fragments including the empty one.           *)
(***************************************************************************)
C7_NewlinesCollapsed ==
  pc = "finished" =>
    LET was == NewlineRuns(PreambleRaw)
        is == NewlineRuns(PreambleOut)
    IN /\ TextOf(PreambleOut) = TextOf(PreambleRaw)
       /\ \A k \in 1..(Len(was) - 1) : is[k] = Min(was[k], 2)
       /\ is[Len(is)] = 3

\* A finished run whose fragments, joined, hold a run of four newlines: no
\* import, no variable, one helper.
C7_Witness ==
  /\ pc = "finished"
  /\ ws.vars = <<>>
  /\ Len(Fragments) = 1
  /\ NewlineRuns(PreambleRaw)[1] >= 4

(***************************************************************************)
(* Unfilled slots and unknown field values of the emitted block            *)
(***************************************************************************)
\* The literals that stand for an absent operand.
Defaults ==
  {"0", "1", "{}", "[]", "''", "false", "true", "False", "None",
   "float('inf')"}

\* The unfilled value slots of b.
UnfilledSlots(b) == {s \in b.slots : ~b[s].filled}

\* The block b with the literal a[s] in its unfilled value slot s.
WithSlots(b, a) ==
  [f \in DOMAIN b |-> IF f \in DOMAIN a THEN Atom(a[f]) ELSE b[f]]

\* The block b with the literal a[i] in the unfilled place i of its sequence
\* of value slots.
WithSeqSlots(b, a) ==
  [b EXCEPT ![b.seq] =
     [i \in 1..Len(b[b.seq]) |->
        IF i \in DOMAIN a THEN Atom(a[i]) ELSE b[b.seq][i]]]

\* The text the emitter of b gives in the state Matlab.init leaves.
TextOfBlock(b) == blockToCode(InitState(Blank, ws), ws, b).code

\* The unfilled places of the sequence of value slots of b.
UnfilledSeq(b) ==
  IF "seq" \in DOMAIN b
  THEN {i \in 1..Len(b[b.seq]) : ~b[b.seq][i].filled}
  ELSE {}

\* The fields that hold one of a fixed set of values.
EnumFields ==
  {"OP", "MODE", "FLOW", "WHERE", "WHERE1", "WHERE2", "CASE", "END", "TYPE",
   "DIRECTION", "PROPERTY", "CONSTANT", "BOOL"}

\* A field of b holds a value outside its set.
HasUnknown(b) ==
  \E f \in (EnumFields \cap DOMAIN b) \ b.slots : b[f] = Bogus

(***************************************************************************)
(* C8: when value slots of the emitted block are unfilled, the text is the *)
(* text the emitter gives with a non-empty literal in each of them; no     *)
(* operand is left empty.                                                  *)
(***************************************************************************)
C8_UnfilledSlotHasDefault ==
  (pc = "emitted" /\ res.err = "") =>
    /\ \E a \in [UnfilledSlots(blk) -> Defaults] :
         TextOfBlock(WithSlots(blk, a)) = res.code
    /\ \E a \in [UnfilledSeq(blk) -> Defaults] :
         "seq" \in DOMAIN blk => TextOfBlock(WithSeqSlots(blk, a)) = res.code

(***************************************************************************)
(* C9: math_number_property with PROPERTY = DIVISIBLE_BY gives the         *)
(* constant false at ORDER_ATOMIC, and no modulo, when the DIVISOR slot is *)
(* unfilled or renders as the literal 0.                                   *)
(***************************************************************************)
C9_DivisibleByZeroIsFalse ==
  ( /\ pc = "emitted"
    /\ blk.type = "math_number_property"
    /\ blk.PROPERTY = "DIVISIBLE_BY"
    /\ (~blk.DIVISOR.filled \/ blk.DIVISOR.code = <<"0">>) ) =>
    /\ res.code \in {<<"false">>, <<"False">>}
    /\ res.order = ORDER_ATOMIC

(***************************************************************************)
(* C10: an emitter that reads an enumerated field aborts when the field    *)
(* holds a value outside its set.                                          *)
(***************************************************************************)
C10_UnknownFieldValueAborts ==
  (pc = "emitted" /\ HasUnknown(blk)) => res.err # ""

\* The fixed texts the error messages of the emitters are built from.
MessageParts ==
  {"", "Unhandled combination (", "Unhandled option (", ").", ")",
   "Unknown mode: ", "Unknown math operator: ", "Unknown operator: ",
   "Unknown flow statement.", ".", ": "}

\* The message mentions x: x stands in it between two of its fixed texts.
Mentions(message, x) ==
  \E before \in MessageParts, after \in MessageParts :
    message = before \o x \o after

\* The enumerated fields of b that hold a value outside their set.
UnknownFields(b) ==
  {f \in (EnumFields \cap DOMAIN b) \ b.slots : b[f] = Bogus}

(***************************************************************************)
(* C11: when an emitter aborts on a field value outside its set, the error *)
(* message names the block's kind and the value.                           *)
(***************************************************************************)
C11_ErrorNamesKindAndValue ==
  (pc = "emitted" /\ HasUnknown(blk) /\ res.err # "") =>
    /\ Mentions(res.err, blk.type)
    /\ \E f \in UnknownFields(blk) : Mentions(res.err, blk[f])

(***************************************************************************)
(* Matlab.getAdjustedInt applied to one index slot                         *)
(***************************************************************************)
\* What the index slot holds: nothing, a number block, a variable, a sum,
\* a product.
AdjSlots ==
  {Unfilled, Atom("x"), Child(<<"x", " + ", "1">>, ORDER_ADDITIVE),
   Child(<<"x", " * ", "2">>, ORDER_MULTIPLICATIVE)}
    \cup {NumChild(n) : n \in NumRange}

\* The calls: the slot, opt_delta (0 when left out), opt_negate.
AdjCalls == [at : AdjSlots, opt_delta : NumRange, opt_negate : BOOLEAN]

InitAdj ==
  /\ pc = "adjust"
  /\ ws \in EmitWorkspaces
  /\ definitions_ = InitState(Blank, ws).definitions_
  /\ functionNames_ = {}
  /\ nameDB_ = InitState(Blank, ws).nameDB_
  /\ isInitialized = TRUE
  /\ codelist = <<>>
  /\ out = <<>>
  /\ log = <<>>
  /\ prev = NoRun
  /\ blk \in AdjCalls
  /\ res = NoResult

\* getAdjustedInt(block, atId, opt_delta, opt_negate); res is what it returns.
Adjust ==
  /\ pc = "adjust"
  /\ res' = getAdjustedInt(ws, blk.at, blk.opt_delta, blk.opt_negate)
  /\ pc' = "adjusted"
  /\ UNCHANGED <<definitions_, functionNames_, nameDB_, isInitialized, ws,
                 codelist, out, log, prev, blk>>

NextAdj == Adjust

SpecAdj == InitAdj /\ [][NextAdj]_vars

(***************************************************************************)
(* The value of an emitted arithmetic expression                           *)
(***************************************************************************)
\* The numerals an emitted index expression can hold.
Numerals == (0 - (MaxNum + 2))..(MaxNum + 2)

NumeralOf(token) == CHOOSE n \in Numerals : token = ToString(n)

\* How many parentheses are open before place i of text.
Depth(text, i) ==
  Cardinality({j \in 1..(i - 1) : text[j] \in {"(", "int("}})
    - Cardinality({j \in 1..(i - 1) : text[j] = ")"})

\* The places of text outside all parentheses that hold one of ops, with an
\* operand before them.
TopLevel(text, ops) ==
  {i \in 2..Len(text) : text[i] \in ops /\ Depth(text, i) = 0}

Last(S) == CHOOSE i \in S : \A j \in S : j <= i

\* The value of text as the target language reads it, the variable x being
\* v: + and - bind weakest and group to the left, then *, then the unary
\* minus; int( ) is the integer coercion, the identity on integers.
RECURSIVE Eval(_, _)
Eval(text, v) ==
  LET sums == TopLevel(text, {" + ", " - "})
      products == TopLevel(text, {" * "})
  IN IF sums # {}
     THEN LET i == Last(sums)
              l == Eval(SubSeq(text, 1, i - 1), v)
              r == Eval(SubSeq(text, i + 1, Len(text)), v)
          IN IF text[i] = " + " THEN l + r ELSE l - r
     ELSE IF products # {}
     THEN LET i == Last(products)
          IN Eval(SubSeq(text, 1, i - 1), v)
               * Eval(SubSeq(text, i + 1, Len(text)), v)
     ELSE IF Len(text) = 1
     THEN IF text[1] = "x" THEN v ELSE NumeralOf(text[1])
     ELSE IF text[1] = "-"
     THEN 0 - Eval(Tail(text), v)
     ELSE Eval(SubSeq(text, 2, Len(text) - 1), v)

(***************************************************************************)
(* C12 as stated: without delta and negation the first position gives the *)
(* literal 0 in zero-based mode (index literal 0) and the literal 1 in     *)
(* one-based mode (index literal 1, the same position).                    *)
(***************************************************************************)
FirstPosition ==
  /\ pc = "adjusted"
  /\ blk.opt_delta = 0
  /\ ~blk.opt_negate
  /\ blk.at = NumChild(IF ws.oneBasedIndex THEN 1 ELSE 0)

C12_AsStated ==
  FirstPosition =>
    res.code = (IF ws.oneBasedIndex THEN <<"1">> ELSE <<"0">>)

(***************************************************************************)
(* C12: without delta and negation getAdjustedInt gives the literal 0 for  *)
(* the first position in both modes: for the index literal 0 in zero-based *)
(* mode and for the index literal 1 in one-based mode.                     *)
(***************************************************************************)
C12_FirstPositionIsZero ==
  FirstPosition => (res.num /\ res.n = 0 /\ res.code = <<"0">>)

C12_Witness ==
  FirstPosition /\ ws.oneBasedIndex /\ res.code = <<"0">>

(***************************************************************************)
(* C13: for an index that is no number literal getAdjustedInt gives an     *)
(* int( ) of the index and the effective delta, with a minus sign before   *)
(* it exactly when negation is asked for; whatever integer the index       *)
(* stands for, the text has the value that getAdjustedInt computes for a   *)
(* number literal of that integer.                                         *)
(***************************************************************************)
C13_DynamicEqualsFolded ==
  (pc = "adjusted" /\ ~res.num) =>
    /\ res.code[1] = (IF blk.opt_negate THEN "-" ELSE "int(")
    /\ res.code[IF blk.opt_negate THEN 2 ELSE 1] = "int("
    /\ \A v \in NumRange :
         LET index == Eval(blk.at.code, v)
         IN index \in NumRange =>
              Eval(res.code, v) =
                getAdjustedInt(ws, NumChild(index), blk.opt_delta,
                               blk.opt_negate).n

C13_Witness ==
  /\ pc = "adjusted"
  /\ ws.oneBasedIndex
  /\ blk.at = Child(<<"x", " + ", "1">>, ORDER_ADDITIVE)
  /\ blk.opt_delta = 0
  /\ blk.opt_negate
  /\ res.code = <<"-", "int(", "(", "x", " + ", "1", ")", " - ", "1", ")">>

(***************************************************************************)
(* Expression trees rendered by the emitters                               *)
(***************************************************************************)
\* A tree is the variable x, <<kind, tree>> or <<kind, tree, tree>>.
Leaf == <<"x">>

UnaryKinds == {"NEG", "NOT", "REVERSE"}

BinaryKinds == {"ADD", "MINUS", "MULTIPLY", "LT", "AND", "OR"}

\* The trees with one more level of blocks than those of below.
Over(below) ==
  below \cup {<<k, a>> : k \in UnaryKinds, a \in below}
        \cup {<<k, a, b>> : k \in BinaryKinds, a \in below, b \in below}

\* The trees of depth at most 3: a block, its operands and their operands.
Trees == Over(Over({Leaf}))

\* The block of a kind, its value inputs holding kids.
BlockOf(kind, kids) ==
  CASE kind = "NEG" ->
         [type |-> "math_single", rev |-> "math.js", slots |-> {"NUM"},
          OP |-> "NEG", NUM |-> kids[1]]
    [] kind = "NOT" ->
         [type |-> "logic_negate", slots |-> {"BOOL"}, BOOL |-> kids[1]]
    [] kind = "REVERSE" ->
         [type |-> "text_reverse", slots |-> {"TEXT"}, TEXT |-> kids[1]]
    [] kind \in {"ADD", "MINUS", "MULTIPLY"} ->
         [type |-> "math_arithmetic", slots |-> {"A", "B"}, OP |-> kind,
          A |-> kids[1], B |-> kids[2]]
    [] kind = "LT" ->
         [type |-> "logic_compare", slots |-> {"A", "B"}, OP |-> "LT",
          A |-> kids[1], B |-> kids[2]]
    [] OTHER ->
         [type |-> "logic_operation", slots |-> {"A", "B"}, OP |-> kind,
          A |-> kids[1], B |-> kids[2]]

\* Generator.blockToCode for the blocks of a tree.
TreeBlockToCode(g, w, b) ==
  CASE b.type = "math_single" -> math_single(g, w, b)
    [] b.type = "logic_negate" -> logic_negate(g, w, b)
    [] b.type = "text_reverse" -> text_reverse(g, w, b)
    [] b.type = "math_arithmetic" -> math_arithmetic(g, w, b)
    [] b.type = "logic_compare" -> logic_compare(g, w, b)
    [] OTHER -> logic_operation(g, w, b)

\* What the emitters give for tree t: each block is rendered with the
\* [code, order] of the blocks in its value inputs.
RECURSIVE RenderTree(_, _, _)
RenderTree(g, w, t) ==
  IF t = Leaf THEN Expr(g, <<"x">>, ORDER_ATOMIC)
  ELSE LET kids == [i \in 1..(Len(t) - 1) |->
                      LET r == RenderTree(g, w, t[i + 1])
                      IN Child(r.code, r.order)]
       IN TreeBlockToCode(g, w, BlockOf(t[1], kids))

InitTree ==
  /\ pc = "tree"
  /\ ws \in EmitWorkspaces
  /\ definitions_ = InitState(Blank, ws).definitions_
  /\ functionNames_ = {}
  /\ nameDB_ = InitState(Blank, ws).nameDB_
  /\ isInitialized = TRUE
  /\ codelist = <<>>
  /\ out = <<>>
  /\ log = <<>>
  /\ prev = NoRun
  /\ blk \in Trees
  /\ res = NoResult

\* blockToCode of the root of the tree blk.
Render ==
  /\ pc = "tree"
  /\ Returned(RenderTree(G, ws, blk))
  /\ pc' = "rendered"
  /\ UNCHANGED <<isInitialized, ws, codelist, out, prev, blk>>

NextTree == Render

SpecTree == InitTree /\ [][NextTree]_vars

(***************************************************************************)
(* Reading an expression as the target language does                       *)
(***************************************************************************)
NoBlanks(text) == SelectSeq(text, LAMBDA token : token # " ")

KindOf(token) ==
  CASE token = "||" -> "OR"
    [] token = "&&" -> "AND"
    [] token = "<" -> "LT"
    [] token = " + " -> "ADD"
    [] token = " - " -> "MINUS"
    [] token = " * " -> "MULTIPLY"
    [] token = "~" -> "NOT"
    [] OTHER -> "NEG"

\* The tree the target language reads in text: || binds weakest, then &&,
\* then the relational operators, then + and -, then *, then the unary ~
\* and -; the binary operators group to the left.
RECURSIVE Parse(_)
Parse(text) ==
  LET ors == TopLevel(text, {"||"})
      ands == TopLevel(text, {"&&"})
      relations == TopLevel(text, {"<"})
      sums == TopLevel(text, {" + ", " - "})
      products == TopLevel(text, {" * "})
      At(i) == <<KindOf(text[i]), Parse(SubSeq(text, 1, i - 1)),
                 Parse(SubSeq(text, i + 1, Len(text)))>>
  IN CASE ors # {} -> At(Last(ors))
       [] ors = {} /\ ands # {} -> At(Last(ands))
       [] ors \cup ands = {} /\ relations # {} -> At(Last(relations))
       [] ors \cup ands \cup relations = {} /\ sums # {} -> At(Last(sums))
       [] ors \cup ands \cup relations \cup sums = {} /\ products # {} ->
            At(Last(products))
       [] OTHER ->
            IF Len(text) <= 1 THEN text
            ELSE IF text[1] \in {"~", "-"}
            THEN <<KindOf(text[1]), Parse(Tail(text))>>
            ELSE Parse(SubSeq(text, 2, Len(text) - 1))

\* The tree t with every chain of && and of || grouped to the left, which
\* is the same expression.
RECURSIVE LeftGrouped(_)
LeftGrouped(t) ==
  IF Len(t) = 1 THEN t
  ELSE IF Len(t) = 2 THEN <<t[1], LeftGrouped(t[2])>>
  ELSE IF t[1] \in {"AND", "OR"} /\ Len(t[3]) = 3 /\ t[3][1] = t[1]
  THEN LeftGrouped(<<t[1], <<t[1], t[2], t[3][2]>>, t[3][3]>>)
  ELSE <<t[1], LeftGrouped(t[2]), LeftGrouped(t[3])>>

\* The kinds of the blocks of tree t.
RECURSIVE KindsOf(_)
KindsOf(t) ==
  IF Len(t) = 1 THEN {}
  ELSE IF Len(t) = 2 THEN {t[1]} \cup KindsOf(t[2])
  ELSE {t[1]} \cup KindsOf(t[2]) \cup KindsOf(t[3])

(***************************************************************************)
(* C14: the text emitted for a tree of math_arithmetic, math_single NEG,   *)
(* logic_compare, logic_operation and logic_negate blocks of depth at most *)
(* 3, read with the target language's precedence, is the tree: no          *)
(* parentheses that the grouping needs are missing.                        *)
(***************************************************************************)
C14_TextGroupsAsTree ==
  (pc = "rendered" /\ "REVERSE" \notin KindsOf(blk)) =>
    LeftGrouped(Parse(NoBlanks(res.code))) = LeftGrouped(blk)

\* The order the block of a kind asks for its operands, which is also the
\* order it returns.
OrderOf(kind) ==
  CASE kind = "NEG" -> ORDER_UNARY_SIGN
    [] kind = "NOT" -> ORDER_LOGICAL_NOT
    [] kind = "REVERSE" -> ORDER_MEMBER
    [] kind \in {"ADD", "MINUS"} -> ORDER_ADDITIVE
    [] kind = "MULTIPLY" -> ORDER_MULTIPLICATIVE
    [] kind = "LT" -> ORDER_RELATIONAL
    [] kind = "AND" -> ORDER_LOGICAL_AND
    [] OTHER -> ORDER_LOGICAL_OR

\* The pairs of an outer and an inner block that are written as a chain:
\* and in and, or in or, negation in negation, member access of a member
\* access.
Chains ==
  {<<"AND", "AND">>, <<"OR", "OR">>, <<"NOT", "NOT">>,
   <<"REVERSE", "REVERSE">>}

Parenthesized(code) == <<"(">> \o code \o <<")">>

\* In the text of a block of a kind, operand i is the text given.
StandsAs(text, kind, i, operand) ==
  CASE kind \in {"NEG", "NOT"} -> Tail(text) = operand
    [] kind = "REVERSE" -> SubSeq(text, 1, Len(text) - 1) = operand
    [] kind \in BinaryKinds /\ i = 1 ->
         /\ Len(text) > Len(operand)
         /\ SubSeq(text, 1, Len(operand)) = operand
         /\ KindOf(text[Len(operand) + 1]) = kind
    [] OTHER ->
         /\ Len(text) > Len(operand)
         /\ SubSeq(text, Len(text) - Len(operand) + 1, Len(text)) = operand
         /\ KindOf(text[Len(text) - Len(operand)]) = kind

\* The text of operand i of the rendered tree, as its own emitter gives it.
OperandText(i) == NoBlanks(RenderTree(G, ws, blk[i + 1]).code)

(***************************************************************************)
(* C15: an operand whose order equals the order its parent asks for is     *)
(* written without parentheses when the pair is a chain (and in and, or in *)
(* or, negation in negation, member access of member access) and in        *)
(* parentheses for every other pair of equal orders, additive in additive  *)
(* among them.                                                             *)
(***************************************************************************)
C15_TiesParenthesizedUnlessChain ==
  (pc = "rendered" /\ blk # Leaf) =>
    \A i \in 1..(Len(blk) - 1) :
      RenderTree(G, ws, blk[i + 1]).order = OrderOf(blk[1]) =>
        IF <<blk[1], blk[i + 1][1]>> \in Chains
        THEN StandsAs(NoBlanks(res.code), blk[1], i, OperandText(i))
        ELSE StandsAs(NoBlanks(res.code), blk[1], i,
                      Parenthesized(OperandText(i)))

C15_Witness ==
  /\ pc = "rendered"
  /\ blk = <<"AND", <<"AND", Leaf, Leaf>>, <<"OR", Leaf, Leaf>>>>
  /\ NoBlanks(res.code) = <<"x", "&&", "x", "&&", "(", "x", "||", "x", ")">>

\* The blocks whose emitter returns a statement.
StatementTypes ==
  {"variables_set", "math_change", "text_append", "text_print",
   "controls_if", "controls_repeat", "controls_repeat_ext",
   "controls_whileUntil", "controls_for", "controls_forEach",
   "controls_flow_statements", "procedures_callnoreturn",
   "procedures_ifreturn", "lists_setIndex"}

IsStatementBlock(b) ==
  \/ b.type \in StatementTypes
  \/ b.type = "lists_getIndex" /\ b.MODE = "REMOVE"

\* text is empty or ends with one newline and no more.
EndsWithOneNewline(text) ==
  \/ text = <<>>
  \/ /\ text[Len(text)] = NL
     /\ Len(text) > 1 => text[Len(text) - 1] # NL

(***************************************************************************)
(* C16: what a statement emitter returns is a statement, and its text is   *)
(* empty or ends with exactly one newline, whatever the fields and the     *)
(* inputs of the block hold.                                               *)
(***************************************************************************)
C16_StatementEndsWithOneNewline ==
  (pc = "emitted" /\ IsStatementBlock(blk) /\ res.err = "") =>
    (res.stmt /\ EndsWithOneNewline(res.code))

C16_Witness ==
  /\ pc = "emitted"
  /\ blk.type = "procedures_callnoreturn"
  /\ res.stmt
  /\ Len(res.code) > 1
  /\ res.code[Len(res.code)] = NL

\* The statement inputs of block b that make a body, in the order of the
\* text: the DO branches and the ELSE branch of controls_if, the DO of a
\* loop, the STACK of a procedure.
BodySlots(b) ==
  CASE b.type = "controls_if" ->
         b.DO \o (IF b.hasElse THEN <<b.ELSE>> ELSE <<>>)
    [] b.type = "procedures_defreturn" -> <<b.STACK>>
    [] OTHER -> <<b.DO>>

\* Block b has bodies the text must fill: a conditional, a loop, a
\* procedure without return value.
HasBodies(b) ==
  \/ b.type \in {"controls_if", "controls_repeat", "controls_repeat_ext",
                 "controls_whileUntil", "controls_for", "controls_forEach"}
  \/ b.type = "procedures_defreturn" /\ ~b.RETURN.filled

\* The text emitted for block blk: what the emitter returned, or the
\* definition a procedure registered.
EmittedText ==
  IF blk.type = "procedures_defreturn"
  THEN DefOf(definitions_, "%" \o GetName(NoNames, blk.NAME, "PROCEDURE").name)
  ELSE res.code

\* The places of text where a line opens a body.
HeaderPlaces(text) ==
  {i \in 1..Len(text) :
     /\ text[i] \in {"if ", "elseif ", "else", "for ", "while ", "def "}
     /\ i = 1 \/ text[i - 1] = NL}

\* The place after the end of the line that holds place i.
NextLine(text, i) ==
  1 + CHOOSE j \in i..Len(text) :
        text[j] = NL /\ \A k \in i..(j - 1) : text[k] # NL

\* Where the body of the header at place i starts: on the next line, after
\* the global declaration of a procedure.
BodyPlace(text, i) ==
  LET p == NextLine(text, i)
  IN IF p < Len(text) /\ text[p] = INDENT /\ text[p + 1] = "global "
     THEN NextLine(text, p) ELSE p

\* The k-th place of a set of places.
Nth(places, k) ==
  CHOOSE p \in places : Cardinality({q \in places : q < p}) = k - 1

BeginsAt(text, p, part) ==
  /\ p + Len(part) - 1 <= Len(text)
  /\ SubSeq(text, p, p + Len(part) - 1) = part

(***************************************************************************)
(* C17: in the text of a conditional, a loop or a procedure without return *)
(* value every body is a statement line: the branch of the statement input *)
(* when it renders to text, and Matlab.PASS when it renders to nothing.    *)
(***************************************************************************)
C17_EmptyBodyGetsPass ==
  (pc = "emitted" /\ HasBodies(blk) /\ res.err = "") =>
    LET text == EmittedText
        places == HeaderPlaces(text)
        slots == BodySlots(blk)
    IN /\ Cardinality(places) = Len(slots)
       /\ \A k \in 1..Len(slots) :
            LET p == BodyPlace(text, Nth(places, k))
            IN /\ p <= Len(text)
               /\ text[p] = INDENT
               /\ BeginsAt(text, p, IF slots[k] = <<>> THEN PASS
                                    ELSE slots[k])

C17_Witness ==
  /\ pc = "emitted"
  /\ blk.type = "controls_if"
  /\ blk.hasElse
  /\ blk.DO = <<(<<>>)>>
  /\ res.code = <<"if ", "x", NL, INDENT, "pass", NL, "else", NL, INDENT,
                  "pass", NL, "end", NL>>

(***************************************************************************)
(* Matlab.scrub_                                                           *)
(***************************************************************************)
\* Generator.COMMENT_WRAP, counted in tokens of the model (a word or a
\* blank is one token).
COMMENT_WRAP == 6

\* The lines of text, without their newlines.
RECURSIVE SplitLines(_)
SplitLines(text) ==
  LET breaks == {i \in 1..Len(text) : text[i] = NL}
  IN IF breaks = {} THEN <<text>>
     ELSE LET i == CHOOSE i \in breaks : \A j \in breaks : i <= j
          IN <<SubSeq(text, 1, i - 1)>>
               \o SplitLines(SubSeq(text, i + 1, Len(text)))

\* One line broken at blanks into lines of at most limit tokens, where a
\* blank allows it.
RECURSIVE WrapLine(_, _)
WrapLine(line, limit) ==
  LET blanks == {i \in 2..Len(line) : line[i] = " " /\ i <= limit + 1}
  IN IF Len(line) <= limit \/ blanks = {} THEN <<line>>
     ELSE LET i == Last(blanks)
          IN <<SubSeq(line, 1, i - 1)>>
               \o WrapLine(SubSeq(line, i + 1, Len(line)), limit)

\* stringUtils.wrap(text, limit)
Wrap(text, limit) ==
  LET lines == SplitLines(text)
      F[i \in 0..Len(lines)] ==
        IF i = 0 THEN <<>> ELSE F[i - 1] \o WrapLine(lines[i], limit)
  IN Join(F[Len(lines)], <<NL>>)

\* Generator.prefixLines(text, prefix): the prefix before every line.
prefixLines(text, prefix) ==
  LET F[i \in 0..Len(text)] ==
        IF i = 0 THEN <<prefix>>
        ELSE F[i - 1] \o <<text[i]>>
               \o (IF text[i] = NL /\ i < Len(text) THEN <<prefix>>
                   ELSE <<>>)
  IN F[Len(text)]

\* Generator.allNestedComments(block): the comments of the block and of its
\* descendants, a newline after each.
allNestedComments(block) ==
  LET F[i \in 0..Len(block.comments)] ==
        IF i = 0 THEN <<>>
        ELSE IF block.comments[i] = <<>> THEN F[i - 1]
             ELSE F[i - 1] \o block.comments[i] \o <<NL>>
  IN F[Len(block.comments)]

\* No block on a connection.
NoChild == [present |-> FALSE, comments |-> <<>>]

\* A connected block: the comments of it and of its descendants.
Connected(comments) == [present |-> TRUE, comments |-> comments]

\* A mutant of scrub_: the comments of the blocks in statement inputs are
\* collected as well.
scrub_AllInputs(block, code, opt_thisOnly) ==
  LET own == IF block.comment # <<>>
             THEN prefixLines(Wrap(block.comment, COMMENT_WRAP - 3)
                                \o <<NL>>, "# ")
             ELSE <<>>
      F[i \in 0..Len(block.inputList)] ==
        IF i = 0 THEN own
        ELSE LET input == block.inputList[i]
                 comment == allNestedComments(input.child)
             IN IF input.child.present /\ comment # <<>>
                THEN F[i - 1] \o prefixLines(comment, "# ")
                ELSE F[i - 1]
      commentCode == IF ~block.inline THEN F[Len(block.inputList)] ELSE <<>>
      nextCode == IF opt_thisOnly THEN <<>> ELSE block.next
  IN commentCode \o code \o nextCode

\* Matlab.scrub_(block, code, opt_thisOnly).  block.inline: the block's
\* output is plugged into a value input; block.next: what blockToCode gives
\* for the block after it, "" without one.
scrub_(block, code, opt_thisOnly) ==
  LET own == IF block.comment # <<>>
             THEN prefixLines(Wrap(block.comment, COMMENT_WRAP - 3)
                                \o <<NL>>, "# ")
             ELSE <<>>
      F[i \in 0..Len(block.inputList)] ==
        IF i = 0 THEN own
        ELSE LET input == block.inputList[i]
                 comment == allNestedComments(input.child)
             IN IF /\ input.type = "VALUE"
                   /\ input.child.present
                   /\ comment # <<>>
                THEN F[i - 1] \o prefixLines(comment, "# ")
                ELSE F[i - 1]
      commentCode == IF ~block.inline THEN F[Len(block.inputList)] ELSE <<>>
      nextCode == IF opt_thisOnly THEN <<>> ELSE block.next
  IN commentCode \o code \o nextCode

\* The comment of the block: none, a short one, one that is wrapped.
OwnComments == {<<>>, <<"own">>, <<"own", " ", "a", " ", "b">>}

\* What a value input holds: nothing, a block without comment, a block with
\* a comment, a block with a comment that has a commented descendant.
ValueChildren ==
  {NoChild, Connected(<<(<<>>)>>), Connected(<<(<<"val">>)>>),
   Connected(<<(<<"val">>), <<"val", " ", "c">>>>)}

\* What a statement input holds: nothing, or a block with a comment.
StatementChildren == {NoChild, Connected(<<(<<"stm">>)>>)}

ValueInput(child) == [type |-> "VALUE", child |-> child]

StatementInput(child) == [type |-> "STATEMENT", child |-> child]

InputLists ==
  {<<>>}
    \cup {<<ValueInput(c)>> : c \in ValueChildren}
    \cup {<<StatementInput(s), ValueInput(c)>> :
            s \in StatementChildren, c \in ValueChildren}
    \cup {<<ValueInput(c), StatementInput(s)>> :
            s \in StatementChildren, c \in ValueChildren}

\* The calls of scrub_.
ScrubCalls ==
  [block : [inline : BOOLEAN, comment : OwnComments, inputList : InputLists,
            next : {<<>>, <<"y = 1;", NL>>}],
   code : {<<"x">>, <<"x = 0;", NL>>},
   opt_thisOnly : BOOLEAN]

InitScrub ==
  /\ pc = "scrub"
  /\ ws \in {Workspace(<<"x">>, <<"foo">>, TRUE)}
  /\ definitions_ = InitState(Blank, ws).definitions_
  /\ functionNames_ = {}
  /\ nameDB_ = InitState(Blank, ws).nameDB_
  /\ isInitialized = TRUE
  /\ codelist = <<>>
  /\ out = <<>>
  /\ log = <<>>
  /\ prev = NoRun
  /\ blk \in ScrubCalls
  /\ res = NoResult

\* One call of scrub_; res.code is what it returns.
Scrub ==
  /\ pc = "scrub"
  /\ res' = [NoResult EXCEPT
               !.code = scrub_(blk.block, blk.code, blk.opt_thisOnly)]
  /\ pc' = "scrubbed"
  /\ UNCHANGED <<definitions_, functionNames_, nameDB_, isInitialized, ws,
                 codelist, out, log, prev, blk>>

NextScrub == Scrub

SpecScrub == InitScrub /\ [][NextScrub]_vars

\* How often token stands in text.
Count(text, token) == Cardinality({i \in 1..Len(text) : text[i] = token})

\* The comments of the blocks in the inputs of a type, one after another.
CommentsIn(block, type) ==
  LET F[i \in 0..Len(block.inputList)] ==
        IF i = 0 THEN <<>>
        ELSE IF block.inputList[i].type = type
             THEN F[i - 1] \o Join(block.inputList[i].child.comments, <<>>)
             ELSE F[i - 1]
  IN F[Len(block.inputList)]

\* text is a sequence of comment lines: each starts with "# " and ends with
\* a newline.
IsCommentLines(text) ==
  \/ text = <<>>
  \/ /\ text[1] = "# "
     /\ text[Len(text)] = NL
     /\ \A i \in 1..(Len(text) - 1) : text[i] = NL => text[i + 1] = "# "

(***************************************************************************)
(* C18: scrub_ returns comment lines, then the code, then the text of the  *)
(* blocks that follow, and nothing after the code when opt_thisOnly is     *)
(* set.  The comment lines hold the words of the block's comment, then     *)
(* those of the comments of the blocks in its value inputs; they hold no   *)
(* word of a comment of a block in a statement input, and there are none   *)
(* when the block is plugged into a value input.                           *)
(***************************************************************************)
C18_ScrubCommentsCodeNext ==
  pc = "scrubbed" =>
    LET block == blk.block
        tail == blk.code \o (IF blk.opt_thisOnly THEN <<>> ELSE block.next)
        n == Len(res.code) - Len(tail)
        head == SubSeq(res.code, 1, n)
        values == CommentsIn(block, "VALUE")
    IN /\ n >= 0
       /\ SubSeq(res.code, n + 1, Len(res.code)) = tail
       /\ IsCommentLines(head)
       /\ Count(head, "stm") = 0
       /\ block.inline => head = <<>>
       /\ ~block.inline =>
            /\ \A word \in {"own", "a", "b"} :
                 Count(head, word) = Count(block.comment, word)
            /\ \A word \in {"val", "c"} :
                 Count(head, word) = Count(values, word)
            /\ \A i, j \in 1..n :
                 (head[i] = "own" /\ head[j] = "val") => i < j

C18_Witness ==
  /\ pc = "scrubbed"
  /\ ~blk.block.inline
  /\ ~blk.opt_thisOnly
  /\ blk.block.inputList =
       <<StatementInput(Connected(<<(<<"stm">>)>>)),
         ValueInput(Connected(<<(<<"val">>), <<"val", " ", "c">>>>))>>
  /\ res.code = <<"# ", "own", " ", "a", NL, "# ", "b", NL,
                  "# ", "val", NL, "# ", "val", " ", "c", NL,
                  "x = 0;", NL, "y = 1;", NL>>

\* The input of block b that holds the collection of an access at a random
\* place.
CollectionSlot(b) ==
  CASE b.type = "lists_setIndex" -> b.LIST
    [] b.type = "math_on_list" -> b.LIST
    [] OTHER -> b.VALUE

\* Block b reads or writes an element at a random place.
IsRandomAccess(b) ==
  \/ b.type \in {"lists_getIndex", "lists_setIndex", "text_charAt"}
       /\ b.WHERE = "RANDOM"
  \/ b.type = "math_on_list" /\ b.OP = "RANDOM"

\* The places of text where part stands.
Occurrences(text, part) ==
  {i \in 1..(Len(text) - Len(part) + 1) :
     SubSeq(text, i, i + Len(part) - 1) = part}

(***************************************************************************)
(* C19: in the code of an access at a random place (lists_getIndex,        *)
(* lists_setIndex, text_charAt with WHERE = RANDOM, math_on_list with OP = *)
(* RANDOM) the text of the collection operand stands at most once, unless  *)
(* it is a bare identifier.                                                *)
(***************************************************************************)
C19_CollectionEvaluatedOnce ==
  ( /\ pc = "emitted"
    /\ res.err = ""
    /\ IsRandomAccess(blk)
    /\ CollectionSlot(blk).filled
    /\ ~IsWord(CollectionSlot(blk).code, {"x"}) ) =>
    Cardinality(Occurrences(res.code, CollectionSlot(blk).code)) <= 1

(***************************************************************************)
(* The value of the code emitted for the mode of a list                    *)
(***************************************************************************)
MaxList == 5       \* the lists evaluated have 1 .. MaxList elements

\* The lists the emitted code is evaluated on: numbers 1 .. MaxNum + 1.
ModeLists == UNION {[1..n -> 1..(MaxNum + 1)] : n \in 1..MaxList}

\* The values of list tied for the highest frequency.
TiedForHighest(list) ==
  {v \in Range(list) : \A u \in Range(list) : Count(list, u) <= Count(list, v)}

\* The target language's builtin mode: the most frequent value, the
\* smallest one of several that are equally frequent.
builtin_mode(list) ==
  CHOOSE v \in TiedForHighest(list) : \A u \in TiedForHighest(list) : v <= u

\* What the helper math_modesCode returns for some_list: counts holds the
\* items in the order they first occur, each with its count; modes holds
\* those whose count is maxCount.
math_modes(some_list) ==
  LET counts[i \in 0..Len(some_list)] ==
        IF i = 0 THEN <<>>
        ELSE IF \E k \in 1..Len(counts[i - 1]) :
                  counts[i - 1][k][1] = some_list[i]
             THEN [k \in 1..Len(counts[i - 1]) |->
                     IF counts[i - 1][k][1] = some_list[i]
                     THEN <<counts[i - 1][k][1], counts[i - 1][k][2] + 1>>
                     ELSE counts[i - 1][k]]
             ELSE Append(counts[i - 1], <<some_list[i], 1>>)
      maxCount[i \in 0..Len(some_list)] ==
        IF i = 0 THEN 1
        ELSE LET hits == {k \in 1..Len(counts[i]) :
                            counts[i][k][1] = some_list[i]}
                 count == counts[i][CHOOSE k \in hits : TRUE][2]
             IN IF count > maxCount[i - 1] THEN count ELSE maxCount[i - 1]
      all == counts[Len(some_list)]
      modes == SelectSeq(all, LAMBDA c : c[2] = maxCount[Len(some_list)])
  IN [k \in 1..Len(modes) |-> modes[k][1]]

\* The collection that the emitted text code has as its value when its
\* operand is list: the one value of the builtin, or what the helper that
\* defs holds under the called name returns.
ModeValue(code, defs, fnames, list) ==
  CASE code[1] = "mode(" -> <<builtin_mode(list)>>
    [] /\ code[1] # "mode("
       /\ HasKey(defs, "math_modes")
       /\ code[1] = NameOfKey(fnames, "math_modes")
       /\ DefOf(defs, "math_modes")
            = ReplacePlaceholder(math_modesCode, code[1]) -> math_modes(list)
    [] OTHER -> <<>>

\* math_on_list with OP = MODE has been emitted.
ModeEmitted ==
  /\ pc = "emitted"
  /\ blk.type = "math_on_list"
  /\ blk.OP = "MODE"
  /\ res.err = ""

(***************************************************************************)
(* C20: the code emitted by math_on_list for OP = MODE has, for every list *)
(* of equatable elements, the collection of all the values tied for the   *)
(* highest frequency as its value (for [1,1,2,2,3] the values 1 and 2),    *)
(* not a single value.                                                     *)
(***************************************************************************)
C20_ModeGivesAllTied ==
  ModeEmitted =>
    \A list \in ModeLists :
      Range(ModeValue(res.code, definitions_, functionNames_, list))
        = TiedForHighest(list)

(***************************************************************************)
(* Runs that overlap: Matlab.init while a walk is in progress              *)
(***************************************************************************)
\* Matlab.init(workspace) called after the init of a walk and before its
\* finish.  init tests nothing, isInitialized least of all; the lines the
\* walk has gathered are local to it and stay.
MatlabInitOverlap ==
  /\ pc = "walk"
  /\ \E w \in Workspaces :
       /\ ws' = w
       /\ SetG(InitState([G EXCEPT !.calls = <<>>], w))
  /\ prev' = [end |-> pc, keys |-> Keys(log)]
  /\ pc' = "walk"
  /\ isInitialized' = TRUE
  /\ blk' = NoBlock
  /\ res' = NoResult
  /\ UNCHANGED <<codelist, out>>

NextOverlap == MatlabInit \/ MatlabInitOverlap \/ Walk \/ MatlabFinish

SpecOverlap == Init /\ [][NextOverlap]_vars

\* The state right after an init that fell into a walk.
JustOverlapped ==
  /\ pc = "walk"
  /\ prev.end = "walk"
  /\ blk = NoBlock

\* The names that text calls or uses out of names.
NamesUsed(text, names) == {n \in names : \E i \in 1..Len(text) : text[i] = n}

\* The names of the functions that text defines.
NamesDefined(text) ==
  {text[i + 1] : i \in {j \in 1..(Len(text) - 1) : text[j] = "def "}}

(***************************************************************************)
(* C21: an init that falls into a walk is not rejected (it is enabled in   *)
(* every state of a walk), and it leaves the run state as an init on a     *)
(* blank generator does: the helpers, the declarations and the allocated   *)
(* names of the walk are gone, while the lines the walk has rendered stay. *)
(***************************************************************************)
C21_OverlappingInitDiscards ==
  /\ pc = "walk" => ENABLED MatlabInitOverlap
  /\ JustOverlapped =>
       /\ isInitialized
       /\ definitions_ = InitState(Blank, ws).definitions_
       /\ functionNames_ = {}
       /\ nameDB_ = InitState(Blank, ws).nameDB_

\* The first walk rendered a block that calls the helper math_isPrime, an
\* init fell into it, and its output calls math_isPrime without defining it.
C21_Witness ==
  /\ pc = "finished"
  /\ prev.end = "walk"
  /\ NamesUsed(res.code, {"math_isPrime"}) = {"math_isPrime"}
  /\ NamesUsed(out, {"math_isPrime"}) = {"math_isPrime"}
  /\ "math_isPrime" \notin NamesDefined(out)

(***************************************************************************)
(* logic_operation on boolean operands                                     *)
(***************************************************************************)
\* The connected block rendered by emitter result r.
Rendered(r) == Child(r.code, r.order)

\* What an operand of logic_operation holds: nothing, a variable, a
\* negation, a conjunction, a disjunction.
BoolSlots ==
  {Unfilled, Atom("x"), Atom("y"),
   Rendered(logic_negate(Blank, Workspace(<<>>, <<>>, TRUE),
                         BlockOf("NOT", <<Atom("x")>>))),
   Rendered(logic_operation(Blank, Workspace(<<>>, <<>>, TRUE),
                            BlockOf("AND", <<Atom("x"), Atom("y")>>))),
   Rendered(logic_operation(Blank, Workspace(<<>>, <<>>, TRUE),
                            BlockOf("OR", <<Atom("x"), Atom("y")>>)))}

InitLogic ==
  /\ pc = "logic"
  /\ ws \in EmitWorkspaces
  /\ definitions_ = InitState(Blank, ws).definitions_
  /\ functionNames_ = {}
  /\ nameDB_ = InitState(Blank, ws).nameDB_
  /\ isInitialized = TRUE
  /\ codelist = <<>>
  /\ out = <<>>
  /\ log = <<>>
  /\ prev = NoRun
  /\ blk \in {BlockOf(op, <<a, b>>) :
                op \in {"AND", "OR"}, a \in BoolSlots, b \in BoolSlots}
  /\ res = NoResult

\* logic_operation applied to the block blk.
Operate ==
  /\ pc = "logic"
  /\ Returned(logic_operation(G, ws, blk))
  /\ pc' = "operated"
  /\ UNCHANGED <<isInitialized, ws, codelist, out, prev, blk>>

NextLogic == Operate

SpecLogic == InitLogic /\ [][NextLogic]_vars

\* The truth value of the tree t that Parse reads, the variables having
\* the values of env.
RECURSIVE TruthOf(_, _)
TruthOf(t, env) ==
  IF Len(t) = 1
  THEN CASE t[1] = "true" -> TRUE
         [] t[1] = "false" -> FALSE
         [] OTHER -> env[t[1]]
  ELSE IF Len(t) = 2 THEN ~TruthOf(t[2], env)
  ELSE IF t[1] = "AND" THEN TruthOf(t[2], env) /\ TruthOf(t[3], env)
  ELSE TruthOf(t[2], env) \/ TruthOf(t[3], env)

\* The truth value of text as the target language reads it.
Truth(text, env) == TruthOf(Parse(NoBlanks(text)), env)

\* The values of the variables.
Envs == [{"x", "y"} -> BOOLEAN]

(***************************************************************************)
(* C22: with exactly one operand unfilled, the expression that             *)
(* logic_operation emits has the value of the filled operand, whatever the *)
(* values of its variables; with both unfilled it is false, for AND and    *)
(* for OR.                                                                 *)
(***************************************************************************)
C22_MissingOperandIsNeutral ==
  pc = "operated" =>
    \A env \in Envs :
      /\ (blk.A.filled /\ ~blk.B.filled) =>
           Truth(res.code, env) = Truth(blk.A.code, env)
      /\ (~blk.A.filled /\ blk.B.filled) =>
           Truth(res.code, env) = Truth(blk.B.code, env)
      /\ (~blk.A.filled /\ ~blk.B.filled) => ~Truth(res.code, env)

\* x || y as the only operand of AND.
C22_Witness ==
  /\ pc = "operated"
  /\ blk.OP = "AND"
  /\ ~blk.A.filled
  /\ blk.B.code = <<"x", " ", "||", " ", "y">>
  /\ res.code = <<"true", " ", "&&", " ", "(", "x", " ", "||", " ", "y",
                  ")">>

(***************************************************************************)
(* The values that an emitted range( ) visits                              *)
(***************************************************************************)
\* The arguments of the first range( ) of text, as integers.
RangeArgs(text) ==
  LET open == CHOOSE i \in 1..Len(text) :
                /\ text[i] = "range("
                /\ \A j \in 1..(i - 1) : text[j] # "range("
      close == CHOOSE i \in open..Len(text) :
                 /\ text[i] = ")"
                 /\ \A j \in open..(i - 1) : text[j] # ")"
      inner == SubSeq(text, open + 1, close - 1)
      F[i \in 0..Len(inner)] ==
        IF i = 0 THEN <<>>
        ELSE IF inner[i] \in {", ", ", -"} THEN F[i - 1]
        ELSE IF i > 1 /\ inner[i - 1] = ", -"
        THEN Append(F[i - 1], 0 - NumeralOf(inner[i]))
        ELSE Append(F[i - 1], NumeralOf(inner[i]))
  IN F[Len(inner)]

\* start, start + step, ... as long as the value is before stop (below it
\* for a positive step, above it for a negative one).
Counting(start, stop, step) ==
  LET far == Abs(stop - start)
      n == Cardinality({k \in 0..far :
                          IF step > 0 THEN start + k * step < stop
                          ELSE start + k * step > stop})
  IN [k \in 1..n |-> start + (k - 1) * step]

\* What range(args) of the target text gives: range(stop), range(start,
\* stop), range(start, stop, step); a step of zero is an error.
PyRange(args) ==
  LET start == IF Len(args) = 1 THEN 0 ELSE args[1]
      stop == IF Len(args) = 1 THEN args[1] ELSE args[2]
      step == IF Len(args) = 3 THEN args[3] ELSE 1
  IN [ok |-> step # 0,
      visits |-> IF step = 0 THEN <<>> ELSE Counting(start, stop, step)]

\* from, from + |by|, ... up to to when from <= to, else from, from - |by|,
\* ... down to to: the values not past to.
FromTo(from, to, by) ==
  IF from <= to
  THEN [k \in 1..((to - from) \div Abs(by) + 1) |-> from + (k - 1) * Abs(by)]
  ELSE [k \in 1..((from - to) \div Abs(by) + 1) |-> from - (k - 1) * Abs(by)]

\* The integer literals of the model that stand in a slot.
IsLiteral(slot) == \E n \in NumRange : slot = NumChild(n)

\* controls_for with integer literals in FROM, TO and BY has been emitted.
ForOverLiterals ==
  /\ pc = "emitted"
  /\ blk.type = "controls_for"
  /\ IsLiteral(blk.FROM)
  /\ IsLiteral(blk.TO)
  /\ IsLiteral(blk.BY)

(***************************************************************************)
(* C23: for integer literals FROM, TO and BY the range that controls_for   *)
(* emits is well-formed and visits FROM, FROM + |BY|, ... when FROM <= TO  *)
(* and FROM, FROM - |BY|, ... otherwise, up to and including the last      *)
(* value that is not past TO; the sign of BY does not matter.              *)
(***************************************************************************)
C23_RangeVisitsFromToTo ==
  ForOverLiterals =>
    LET range == PyRange(RangeArgs(res.code))
    IN /\ range.ok
       /\ range.visits = FromTo(ParseInt(blk.FROM.code), ParseInt(blk.TO.code),
                                ParseInt(blk.BY.code))

(***************************************************************************)
(* The temporaries of controls_for                                         *)
(***************************************************************************)
\* The place of the first "for " of text.
ForPlace(text) ==
  CHOOSE i \in 1..Len(text) :
    text[i] = "for " /\ \A j \in 1..(i - 1) : text[j] # "for "

\* The lines of text before its loop header, without their newlines.
LinesBefore(text) ==
  IF ForPlace(text) = 1 THEN <<>>
  ELSE SplitLines(SubSeq(text, 1, ForPlace(text) - 2))

\* The loop header of text: from "for " to the end of its line.
LoopHeader(text) ==
  LET from == ForPlace(text)
      to == CHOOSE i \in from..Len(text) :
              text[i] = NL /\ \A j \in from..(i - 1) : text[j] # NL
  IN SubSeq(text, from, to)

\* The names the workspace knows before the block is rendered.
KnownNames == InitState(Blank, ws).nameDB_.dbReverse

\* The slot holds an expression: no number literal, no bare identifier.
IsExpression(slot) ==
  /\ slot.filled
  /\ ~IsNumber(slot.code)
  /\ ~IsWord(slot.code, KnownNames)

\* The bounds of block b that hold expressions, in the order FROM, TO, BY.
ExpressionBounds(b) ==
  SelectSeq(<<b.FROM, b.TO, b.BY>>, IsExpression)

\* controls_for with an expression in a bound has been emitted.
ForOverExpressions ==
  /\ pc = "emitted"
  /\ blk.type = "controls_for"
  /\ res.err = ""
  /\ ExpressionBounds(blk) # <<>>

(***************************************************************************)
(* C24: controls_for assigns each bound (FROM, TO, BY) that is neither a   *)
(* number literal nor a bare identifier once to a temporary in a line      *)
(* before the loop header; the temporary is a name not known before, the   *)
(* temporaries differ from one another, and the loop header holds the      *)
(* temporary and nowhere the text of the bound.                            *)
(***************************************************************************)
C24_BoundsCachedInTemporaries ==
  ForOverExpressions =>
    LET bounds == ExpressionBounds(blk)
        lines == LinesBefore(res.code)
        header == LoopHeader(res.code)
    IN /\ Len(lines) = Len(bounds)
       /\ \A k \in 1..Len(bounds) :
            /\ lines[k] = <<lines[k][1], " = float(">> \o bounds[k].code
                            \o <<")">>
            /\ lines[k][1] \notin KnownNames
            /\ lines[k][1] \in nameDB_.dbReverse
            /\ Count(header, lines[k][1]) >= 1
            /\ Occurrences(header, bounds[k].code) = {}
            /\ \A m \in 1..Len(bounds) : lines[m][1] = lines[k][1] => m = k

\* All three bounds are the expression x + 1.
C24_Witness ==
  /\ ForOverExpressions
  /\ Len(ExpressionBounds(blk)) = 3
  /\ LinesBefore(res.code) =
       << <<"x_start", " = float(", "x", " + ", "1", ")">>,
          <<"x_end", " = float(", "x", " + ", "1", ")">>,
          <<"x_inc", " = float(", "x", " + ", "1", ")">> >>
  /\ Count(LoopHeader(res.code), "x_start") = 3

\* The emitters of compound statements.
CompoundTypes ==
  {"controls_if", "controls_repeat_ext", "controls_whileUntil",
   "controls_for", "controls_forEach", "procedures_defreturn",
   "procedures_ifreturn"}

\* The places of text where a line opens a block.
Openers(text) ==
  {i \in 1..Len(text) :
     /\ text[i] \in {"if ", "for ", "while ", "def "}
     /\ i = 1 \/ text[i - 1] = NL}

\* The places of text where an end line closes a block.
Closers(text) ==
  {i \in 1..(Len(text) - 1) :
     /\ text[i] = "end"
     /\ text[i + 1] = NL
     /\ i = 1 \/ text[i - 1] = NL}

(***************************************************************************)
(* C25: the text of every compound statement (controls_if,                 *)
(* controls_repeat_ext, controls_whileUntil, controls_for,                 *)
(* controls_forEach, procedures_defreturn, procedures_ifreturn) holds as   *)
(* many end lines as lines that open a block, and ends with an end line.   *)
(***************************************************************************)
C25_BlocksClosedByEnd ==
  (pc = "emitted" /\ blk.type \in CompoundTypes /\ res.err = "") =>
    LET text == EmittedText
    IN /\ Cardinality(Closers(text)) = Cardinality(Openers(text))
       /\ Len(text) - 1 \in Closers(text)

\* The names under which the emitters ask the registry for a helper.
HelperNames ==
  {"flattentocelllist", "first_index", "last_index", "getRemoveAt",
   "lists_sort", "upRange", "downRange", "text_random_letter", "text_prompt",
   "totitlecase", "lstrip", "ternarySubstituteOperator", "colour_blend",
   "colour_rgb", "math_isPrime", "math_mean", "math_median", "math_modes",
   "math_standard_deviation"}

\* The places of text that call the function called name.
CalledAt(text, name) ==
  {i \in 1..Len(text) :
     \/ text[i] = name \o "("
     \/ text[i] = name /\ (i = 1 \/ text[i - 1] \notin Heads)}

\* The names the registry has returned in this run.
NamesReturned == {Requests[i].name : i \in 1..Len(Requests)}

(***************************************************************************)
(* C26: in the output of finish, every helper that the code or a           *)
(* definition calls by name is defined in the preamble under that name,    *)
(* and the name is one that the registry returned during the run.          *)
(***************************************************************************)
C26_CalledHelpersAreDefined ==
  pc = "finished" =>
    \A name \in HelperNames :
      CalledAt(out, name) # {} =>
        /\ DefinedAt(SubSeq(out, 1, BodyStart - 1), name) # {}
        /\ name \in NamesReturned

(***************************************************************************)
(* The brackets and operators of an emitted text                           *)
(***************************************************************************)
\* The brackets and the operators that the characters of a token of the
\* emitters hold, in their order; a token that is not listed holds none.
\* MUL is a binary *, / or %, ADD a binary + or -, REL a comparison, NEG
\* the unary minus, NOT the unary ~, EXP the power operator.
LexemesOf(token) ==
  CASE token \in
         {"[", "[ "}
           -> <<"[">>
    [] token \in
         {"-", "-1", "-Inf", "-2", "-3"}
           -> <<"NEG">>
    [] token \in
         {"~"}
           -> <<"NOT">>
    [] token \in
         {"[]", "[0, 0, 0]"}
           -> <<"[", "]">>
    [] token \in
         {"<", "<=", ">", ">=", "==", "~=", " > 0", " < 0", " == 0"}
           -> <<"REL">>
    [] token \in
         {"||"}
           -> <<"OR">>
    [] token \in
         {"&&"}
           -> <<"AND">>
    [] token \in
         {"{"}
           -> <<"{">>
    [] token \in
         {"(", "int(", "repmat(", "length(", "isempty(", "strsplit(",
          "strjoin(", "flip(", "abs(", "sqrt(", "log(", "log10(", "exp(",
          "power(10,", "round(", "ceil(", "floor(", "sin(", "cos(", "tan(",
          "asin(", "acos(", "atan(", "mod(", "isprime(", "sum(", "min(",
          "max(", "mean(", "median(", "mode(", "std(", "atan2(",
          "math.fabs(", "math.sqrt(", "math.log(", "math.log10(",
          "math.exp(", "math.pow(10,", "math.ceil(", "math.floor(",
          "math.sin(", "math.cos(", "math.tan(", "math.asin(",
          "math.acos(", "math.atan(", "char(", "upper(", "lower(",
          "totitlecase(", "lstrip(", "deblank(", "strtrim(", "input(",
          "str2num(", "strrep("}
           -> <<"(">>
    [] token \in
         {")", "), 1, ", "), ", ", 0)", ", 1)", "')", ", 's')",
          ", 'overlaps', false)"}
           -> <<")">>
    [] token \in
         {"}"}
           -> <<"}">>
    [] token \in
         {"]", " ]"}
           -> <<"]">>
    [] token \in
         {" + ", " - ", "end+1"}
           -> <<"ADD">>
    [] token \in
         {"{}", "{1}", "{end}"}
           -> <<"{", "}">>
    [] token \in
         {"({"}
           -> <<"(", "{">>
    [] token \in
         {"})"}
           -> <<"}", ")">>
    [] token \in
         {"))", ", 'overlaps', false))"}
           -> <<")", ")">>
    [] token \in
         {"{end+1"}
           -> <<"{", "ADD">>
    [] token \in
         {" * ", " / ", " % "}
           -> <<"MUL">>
    [] token \in
         {") / pi * 180", ") / math.pi * 180"}
           -> <<")", "MUL", "MUL">>
    [] token \in
         {" / 180.0 * pi)", " / 180.0 * math.pi)"}
           -> <<"MUL", "MUL", ")">>
    [] token \in
         {") == 0", ") == 1"}
           -> <<")", "REL">>
    [] token \in
         {"(1 + sqrt(5)) / 2"}
           -> <<"(", "ADD", "(", ")", ")", "MUL">>
    [] token \in
         {"sqrt(2)", "float('inf')", "rand()", "(1)", "(end)", "rand(1,3)"}
           -> <<"(", ")">>
    [] token \in
         {"sqrt(1.0 / 2)"}
           -> <<"(", "MUL", ")">>
    [] token \in
         {"(randi(length("}
           -> <<"(", "(", "(">>
    [] token \in
         {")))"}
           -> <<")", ")", ")">>
    [] token \in
         {"min(max(", "(strfind(", "length(strfind("}
           -> <<"(", "(">>
    [] token \in
         {"randi(["}
           -> <<"(", "[">>
    [] token \in
         {"])"}
           -> <<"]", ")">>
    [] token \in
         {" % 2 == 0", " % 2 == 1", " % 1 == 0"}
           -> <<"MUL", "REL">>
    [] token \in
         {"(end:-1:1)"}
           -> <<"(", "NEG", ")">>
    [] token \in
         {"] / 255"}
           -> <<"]", "MUL">>
    [] token \in
         {"max(0, min(100, ["}
           -> <<"(", "(", "[">>
    [] token \in
         {"])) / 100"}
           -> <<"]", ")", ")", "MUL">>
    [] token \in
         {"'#%06x' % random.randint(0, 2**24 - 1)"}
           -> <<"MUL", "(", "EXP", "ADD", ")">>
    [] OTHER -> <<>>

\* The brackets that a token holds.
BracketsOf(token) ==
  SelectSeq(LexemesOf(token),
            LAMBDA l : l \in {"(", ")", "[", "]", "{", "}"})

\* The brackets of text, in their order.
Brackets(text) ==
  LET F[i \in 0..Len(text)] ==
        IF i = 0 THEN <<>> ELSE F[i - 1] \o BracketsOf(text[i])
  IN F[Len(text)]

\* The bracket that closes an opening bracket.
Closing(bracket) ==
  CASE bracket = "(" -> ")"
    [] bracket = "[" -> "]"
    [] OTHER -> "}"

\* Every bracket of text is closed by one of its kind, innermost first.
\* The brackets still open are kept in a stack; <<"!">> marks a closing
\* bracket that closes nothing.
Balanced(text) ==
  LET brackets == Brackets(text)
      Open[i \in 0..Len(brackets)] ==
        IF i = 0 THEN <<>>
        ELSE LET before == Open[i - 1]
             IN IF before = <<"!">> THEN before
                ELSE IF brackets[i] \in {"(", "[", "{"}
                THEN Append(before, brackets[i])
                ELSE IF before # <<>>
                        /\ Closing(before[Len(before)]) = brackets[i]
                THEN SubSeq(before, 1, Len(before) - 1)
                ELSE <<"!">>
  IN Open[Len(brackets)] = <<>>

(***************************************************************************)
(* C27: the text of every expression emitter, for all values that its      *)
(* fields offer and with children whose brackets are balanced, has         *)
(* balanced parentheses, square brackets and braces.                       *)
(***************************************************************************)
C27_BracketsBalanced ==
  (pc = "emitted" /\ res.err = "" /\ ~res.stmt /\ ~HasUnknown(blk)) =>
    ( (\A s \in blk.slots : blk[s].filled => Balanced(blk[s].code)) =>
        Balanced(res.code) )

\* The brackets and operators of text, in their order.
Lexemes(text) ==
  LET F[i \in 0..Len(text)] ==
        IF i = 0 THEN <<>> ELSE F[i - 1] \o LexemesOf(text[i])
  IN F[Len(text)]

\* The operators of text that stand outside all brackets.
TopOperators(text) ==
  LET lexemes == Lexemes(text)
      Open(i) ==
        Cardinality({j \in 1..(i - 1) : lexemes[j] \in {"(", "[", "{"}})
          - Cardinality({j \in 1..(i - 1) : lexemes[j] \in {")", "]", "}"}})
  IN {lexemes[i] : i \in {k \in 1..Len(lexemes) :
                            /\ lexemes[k] \notin {"(", ")", "[", "]", "{", "}"}
                            /\ Open(k) = 0}}

\* The precedence of an operator in the table of the generator.
RankOf(operator) ==
  CASE operator = "EXP" -> ORDER_EXPONENTIATION
    [] operator = "NEG" -> ORDER_UNARY_SIGN
    [] operator = "MUL" -> ORDER_MULTIPLICATIVE
    [] operator = "ADD" -> ORDER_ADDITIVE
    [] operator = "REL" -> ORDER_RELATIONAL
    [] operator = "NOT" -> ORDER_LOGICAL_NOT
    [] operator = "AND" -> ORDER_LOGICAL_AND
    [] OTHER -> ORDER_LOGICAL_OR

(***************************************************************************)
(* C28: the precedence that an expression emitter returns is not tighter   *)
(* than that of any operator at the top level of its text: at least        *)
(* MULTIPLICATIVE with a binary * or / there, at least ADDITIVE with a     *)
(* binary + or -, and ATOMIC, MEMBER or FUNCTION_CALL only for a text      *)
(* without operator at the top level.                                      *)
(***************************************************************************)
C28_OrderCoversTopOperators ==
  (pc = "emitted" /\ res.err = "" /\ ~res.stmt /\ ~HasUnknown(blk)) =>
    \A operator \in TopOperators(res.code) : res.order >= RankOf(operator)

(***************************************************************************)
(* Positions counted from the end                                          *)
(***************************************************************************)
\* The places of text that hold end+1, which the offset follows.
EndPlaces(text) ==
  {i \in 1..Len(text) : text[i] \in {"{end+1", "(end+1", "(1:end+1", "end+1"}}

\* The slot of block b that holds the offset from the end.
OffsetSlot(b) == IF b.type = "lists_getSublist" THEN b.AT1 ELSE b.AT

\* A list block that addresses from the end has been emitted with its
\* position in the text: an element read or written, or the start of a
\* sublist whose end is not counted from the end as well.
FromEndEmitted ==
  /\ pc = "emitted"
  /\ res.err = ""
  /\ \/ blk.type = "lists_getIndex" /\ blk.WHERE = "FROM_END"
          /\ blk.MODE = "GET"
     \/ blk.type = "lists_setIndex" /\ blk.WHERE = "FROM_END"
     \/ blk.type = "lists_getSublist" /\ blk.WHERE1 = "FROM_END"
          /\ blk.WHERE2 # "FROM_END"

\* How far the literal n is from the last element, counted from zero.
DistanceOf(n) == IF ws.oneBasedIndex THEN n - 1 ELSE n

(***************************************************************************)
(* C29: for lists_getIndex, lists_setIndex and the start of                *)
(* lists_getSublist with FROM_END and an integer literal n, in both index  *)
(* modes, the emitted position is end+1 followed by a signed offset, never *)
(* by bare digits, and for every length of the list its value is the       *)
(* length minus the distance of n from the last element.                   *)
(***************************************************************************)
C29_FromEndIsLengthMinusDistance ==
  (FromEndEmitted /\ IsLiteral(OffsetSlot(blk))) =>
    /\ EndPlaces(res.code) # {}
    /\ \A i \in EndPlaces(res.code) :
         /\ i < Len(res.code)
         /\ \E k \in Numerals :
              /\ k < 0
              /\ res.code[i + 1] = ToString(k)
              /\ \A length \in 1..MaxList :
                   length + 1 + k
                     = length - DistanceOf(ParseInt(OffsetSlot(blk).code))

(***************************************************************************)
(* Positions counted from the end by an offset that is not a literal       *)
(***************************************************************************)
\* The bounds between the parentheses of the indexing text: one for an
\* element, two around the colon for a range.
BoundsOf(text) ==
  LET open == CHOOSE i \in 1..Len(text) :
                /\ text[i] = "("
                /\ \A j \in 1..(i - 1) : text[j] # "("
      colons == {i \in 1..Len(text) : text[i] = ":"}
  IN IF colons = {} THEN <<SubSeq(text, open + 1, Len(text) - 1)>>
     ELSE LET colon == CHOOSE i \in colons : TRUE
          IN <<SubSeq(text, open + 1, colon - 1),
               SubSeq(text, colon + 1, Len(text) - 1)>>

\* The slot holds an expression that is not a number.
NonLiteral(slot) == slot.filled /\ ~IsNumber(slot.code)

\* The bound text, counted from the end when where says so: the slot of the
\* offset, the delta that the emitter hands to getAdjustedInt and the number
\* that the literal branch adds to end.
EndBound(where, text, slot, delta, base) ==
  IF where = "FROM_END"
  THEN {[text |-> text, slot |-> slot, delta |-> delta, base |-> base]}
  ELSE {}

\* The bounds of the emitted block that are counted from the end.
EndBounds ==
  IF pc # "emitted" \/ res.err # "" THEN {}
  ELSE CASE blk.type = "lists_getSublist" ->
              EndBound(blk.WHERE2, BoundsOf(res.code)[2], blk.AT2, 1, 1)
         [] blk.type = "text_charAt" ->
              EndBound(blk.WHERE, BoundsOf(res.code)[1], blk.AT, 0, 0)
         [] blk.type = "text_getSubstring" ->
              EndBound(blk.WHERE1, BoundsOf(res.code)[1], blk.AT1, 0, 0)
                \cup EndBound(blk.WHERE2, BoundsOf(res.code)[2], blk.AT2, 0, 0)
         [] OTHER -> {}

(***************************************************************************)
(* C30: a bound that lists_getSublist (its end), text_charAt or            *)
(* text_getSubstring (either bound) counts from the end by an offset x     *)
(* that is not a literal is emitted as end, a minus sign and the coerced   *)
(* offset int( ), and for every value of x and every length it is the      *)
(* position that the literal branch emits for that value.                  *)
(***************************************************************************)
C30_NonLiteralFromEnd ==
  \A p \in {q \in EndBounds : NonLiteral(q.slot)} :
    /\ Len(p.text) >= 4
    /\ p.text[1] \in {"end", "end+1"}
    /\ p.text[2] = "-"
    /\ p.text[3] = "int("
    /\ \A v \in NumRange : \A length \in 1..MaxList :
         length + (IF p.text[1] = "end+1" THEN 1 ELSE 0)
             - Eval(SubSeq(p.text, 3, Len(p.text)), v)
           = length + p.base
               + getAdjustedInt(ws, NumChild(v), p.delta, TRUE).n

====
